---------------------------- MODULE Spec2Model ----------------------------
(***************************************************************************)
(* A model of crates/util/src/paths.rs: the `path:row:column` parser       *)
(* PathWithPosition::parse_str, with from_path and to_string; the glob     *)
(* matcher PathMatcher; and the path comparator                            *)
(* compare_paths_with_strategy.  Each of the three has its own             *)
(* specification (Spec, SpecMatcher, SpecCompare) over its own variables;  *)
(* so have the PathExt methods compact and extension_or_hidden_file_name   *)
(* (SpecPathExt) and the animation of CircleProgressBarStory in            *)
(* crates/ui (SpecStory).  The variables of the others stay idle.          *)
(*                                                                         *)
(* A string is a sequence of characters; a character is a one-element      *)
(* TLA+ string.  Lengths and slice indices of the Rust code are in bytes   *)
(* of the UTF-8 encoding, so every character carries its encoded length    *)
(* (ByteLen) and a slice that does not end on a character boundary panics, *)
(* as `&str[..n]` does.  The platform modelled is Unix: the path separator *)
(* is '/'.                                                                 *)
(*                                                                         *)
(* A u32 is represented by its canonical decimal numeral (a sequence of    *)
(* digit characters without leading zeros): TLC's integers end at 2^31-1,  *)
(* below u32::MAX, and the numeral is also what to_string prints.          *)
(***************************************************************************)
EXTENDS Integers, Sequences, FiniteSets

VARIABLES
    input,      \* the &str given to parse_str / the PathBuf given to from_path
    pc,         \* "start" | "parsed" | "constructed" | "built" | "panicked" | "printed" | ...
    pwp,        \* the PathWithPosition value built, or None
    text,       \* the String returned by to_string, or None
    reparsed,   \* the outcome of parse_str on that String, or None
    patterns,   \* the patterns given to PathMatcher::new
    matcher,    \* the Result of PathMatcher::new (or the Default matcher), or None
    second,     \* a second pattern list and the Result of PathMatcher::new on it
    candidate,  \* the path given to is_match
    verdict,    \* the bool returned by is_match or by ==
    verdict_dir, \* the bool returned by is_match for candidate + separator
    mpc,        \* "idle" | "start" | "built" | "refused" | "defaulted" | ...
    entries,    \* the (path, is_file) pairs compared and sorted
    strategy,   \* the SortStrategy
    overflow_checks, \* the build checks integer overflow (debug) or wraps (release)
    orderings,  \* the Orderings returned for the pairs of entries, row by row
    sorted,     \* the outcome of sort_by on the entries, or None
    cpc,        \* "idle" | "start" | "comparing" | "compared" | "sorted"
    target_os,  \* the target_os the crate is compiled for
    home,       \* the path home_dir() returns
    subject,    \* the path the PathExt methods are called on
    compacted,  \* the PathBuf returned by compact, or None
    hidden_name, \* the Option returned by extension_or_hidden_file_name, or None
    xpc,        \* "idle" | "start" | "compacted" | "named"
    progress,   \* CircleProgressBarStory::progress, in halves (2 * progress)
    colour,     \* the colour of the animated bars at the last render, or None
    spc         \* "idle" | "created" | "ticked" | "rendered"

parserVars == <<input, pc, pwp, text, reparsed>>
matcherVars == <<patterns, matcher, second, candidate, verdict, verdict_dir, mpc>>

compareVars == <<entries, strategy, overflow_checks, orderings, sorted, cpc>>

pathExtVars == <<target_os, home, subject, compacted, hidden_name, xpc>>
storyVars == <<progress, colour, spc>>

vars == <<parserVars, matcherVars, compareVars, pathExtVars, storyVars>>

\* The matcher is not in use.
MatcherIdle ==
    /\ patterns = <<>> /\ matcher = <<>> /\ second = <<>> /\ candidate = <<>>
    /\ verdict = <<>> /\ verdict_dir = <<>> /\ mpc = "idle"

\* The comparator is not in use.
CompareIdle ==
    /\ entries = <<>> /\ strategy = "" /\ overflow_checks = FALSE
    /\ orderings = <<>> /\ sorted = <<>> /\ cpc = "idle"

\* The PathExt methods are not in use.
PathExtIdle ==
    /\ target_os = "" /\ home = <<>> /\ subject = <<>> /\ compacted = <<>>
    /\ hidden_name = <<>> /\ xpc = "idle"

\* No CircleProgressBarStory exists.
StoryIdle == progress = 0 /\ colour = <<>> /\ spc = "idle"

-----------------------------------------------------------------------------
(* Characters *)

NL == "\n"
Space == " "
Slash == "/"
Dot == "."
Colon == ":"
LParen == "("
RParen == ")"
Comma == ","
\* U+00E9, two bytes in UTF-8, not a digit.
EAcute == "\\u00E9"
\* U+0663 ARABIC-INDIC DIGIT THREE, two bytes in UTF-8, general category Nd.
ArabicThree == "\\u0663"

AsciiDigit == {"0", "1", "2", "3", "4", "5", "6", "7", "8", "9"}

\* char::is_whitespace, as used by str::trim.
IsWhitespace(c) == c \in {Space, NL}

\* The regex class \d: Unicode-aware in the regex crate (\p{Nd}).
RegexDigit(c) == c \in AsciiDigit \cup {ArabicThree}

\* The regex class `.`: any character except the line feed.
RegexDot(c) == c # NL

\* Encoded length of a character in UTF-8.
ByteLen(c) == IF c \in {EAcute, ArabicThree} THEN 2 ELSE 1

RECURSIVE StrLen(_)
\* str::len: the length in bytes.
StrLen(s) == IF s = <<>> THEN 0 ELSE ByteLen(Head(s)) + StrLen(Tail(s))

Min(S) == CHOOSE i \in S : \A j \in S : i <= j

Max(S) == CHOOSE i \in S : \A j \in S : i >= j

\* Option<T>: None is the empty sequence, Some(x) the one-element sequence.
None == <<>>
Some(x) == <<x>>

-----------------------------------------------------------------------------
(* str::trim, Path::file_name *)

\* A parse_str that forgets to trim: the string as given.
TrimNothing(s) == s

\* str::trim: the string without its leading and trailing whitespace.
Trim(s) ==
    LET keep == {i \in 1..Len(s) : ~IsWhitespace(s[i])}
    IN  IF keep = {} THEN <<>> ELSE SubSeq(s, Min(keep), Max(keep))

\* The first index of the run of non-separator characters that ends at e.
ComponentStart(s, e) ==
    LET seps == {i \in 1..e : s[i] = Slash}
    IN  IF seps = {} THEN 1 ELSE Max(seps) + 1

RECURSIVE LastNormalComponent(_, _)
\* Components::next_back over s[1..e] on Unix, as the pair of the first and
\* last index of the component: separators and `.` components are skipped,
\* `..` is ParentDir, and when nothing is left the answer is RootDir, CurDir
\* or nothing: in all these cases no Normal component (the empty pair).
LastNormalComponent(s, e) ==
    IF e = 0 THEN <<>>
    ELSE IF s[e] = Slash THEN LastNormalComponent(s, e - 1)
    ELSE LET b == ComponentStart(s, e)
             comp == SubSeq(s, b, e)
         IN  IF comp = <<Dot>> THEN LastNormalComponent(s, b - 1)
             ELSE IF comp = <<Dot, Dot>> THEN <<>>
             ELSE <<b, e>>

\* path.file_name().unwrap_or_default().to_string_lossy(): the final Normal
\* component, or the empty string when the path has none.
file_name(s) ==
    LET span == LastNormalComponent(s, Len(s))
    IN  IF span = <<>> THEN <<>> ELSE SubSeq(s, span[1], span[2])

RECURSIVE SplitOnSlash(_)
\* The runs of characters between the separators of s, empty runs included.
SplitOnSlash(s) ==
    LET seps == {i \in 1..Len(s) : s[i] = Slash}
    IN  IF seps = {} THEN <<s>>
        ELSE <<SubSeq(s, 1, Min(seps) - 1)>> \o SplitOnSlash(SubSeq(s, Min(seps) + 1, Len(s)))

\* Path::components on Unix: RootDir (written as the separator) for a leading
\* separator, CurDir for a leading `.` of a relative path, and then every
\* run that is neither empty nor `.` (Normal, or ParentDir for `..`).
Components(s) ==
    LET runs == SplitOnSlash(s)
        start == IF s # <<>> /\ s[1] = Slash THEN <<<<Slash>>>>
                 ELSE IF runs[1] = <<Dot>> THEN <<<<Dot>>>>
                 ELSE <<>>
    IN  start \o SelectSeq(runs, LAMBDA r : r # <<>> /\ r # <<Dot>>)

\* PathBuf's PartialEq: two paths are equal when their components are.
SamePath(a, b) == Components(a) = Components(b)

-----------------------------------------------------------------------------
(* ROW_COL_CAPTURE_REGEX *)

\* The last index of a run in f, given the indices after its start at which
\* the run cannot go on: one before the first of them, or the end of f.
RunEnd(stops, f) == IF stops = {} THEN Len(f) ELSE Min(stops) - 1

\* \d+ and \:+ are greedy: the longest run of digits, of colons, that starts
\* at index i of f (its last index; i - 1 when the run is empty).
DigitsEnd(f, i) == RunEnd({k \in i..Len(f) : ~RegexDigit(f[k])}, f)
ColonsEnd(f, i) == RunEnd({k \in i..Len(f) : f[k] # Colon}, f)
\* The longest run of `.` characters that starts at index i of f.
DotsEnd(f, i) == RunEnd({k \in i..Len(f) : ~RegexDot(f[k])}, f)

Captures(name, row, col) == [file_name |-> name, maybe_row |-> row, maybe_column |-> col]

\* The first alternative tried at start index i:
\*   ([^\(]+)(?: \((\d+),(\d+)\) | \((\d+)\)() )
\* The group ends right before the first '(' after i; the match need not
\* reach the end of the text.
ParenBranch(f, i) ==
    LET n == Len(f)
        opens == {j \in (i + 1)..n : f[j] = LParen}
    IN  IF i > n \/ f[i] = LParen \/ opens = {} THEN None
        ELSE LET j == Min(opens)
                 d1 == DigitsEnd(f, j + 1)
                 d2 == DigitsEnd(f, d1 + 2)
             IN  IF d1 < j + 1 \/ d1 + 1 > n THEN None
                 ELSE IF f[d1 + 1] = Comma /\ d2 >= d1 + 2 /\ d2 + 1 <= n /\ f[d2 + 1] = RParen
                      THEN Some(Captures(SubSeq(f, i, j - 1), SubSeq(f, j + 1, d1),
                                         SubSeq(f, d1 + 2, d2)))
                 ELSE IF f[d1 + 1] = RParen
                      THEN Some(Captures(SubSeq(f, i, j - 1), SubSeq(f, j + 1, d1), <<>>))
                 ELSE None

\* The three anchored suffix forms, tried in order on f[p..]:
\*   \:+(\d+)\:(\d+)\:*$  |  \:+(\d+)\:*()$  |  \:*()()$
\* The answer is the pair of captured texts, or None.
ColonSuffix(f, p) ==
    LET n == Len(f)
        c1 == ColonsEnd(f, p)
        d1 == DigitsEnd(f, c1 + 1)
        d2 == DigitsEnd(f, d1 + 2)
    IN  IF c1 >= p /\ d1 >= c1 + 1 /\ d1 + 1 <= n /\ f[d1 + 1] = Colon
           /\ d2 >= d1 + 2 /\ ColonsEnd(f, d2 + 1) = n
        THEN Some(<<SubSeq(f, c1 + 1, d1), SubSeq(f, d1 + 2, d2)>>)
        ELSE IF c1 >= p /\ d1 >= c1 + 1 /\ ColonsEnd(f, d1 + 1) = n
        THEN Some(<<SubSeq(f, c1 + 1, d1), <<>>>>)
        ELSE IF c1 = n
        THEN Some(<<<<>>, <<>>>>)
        ELSE None

\* The second alternative tried at start index i:  (.+?)(?: suffix forms )
\* The lazy group takes the shortest run of `.` characters after which one of
\* the suffix forms reaches the end of the text.
ColonBranch(f, i) ==
    LET n == Len(f)
        dots == DotsEnd(f, i)
        ends == {k \in i..dots : ColonSuffix(f, k + 1) # None}
    IN  IF ends = {} THEN None
        ELSE LET k == Min(ends)
                 suffix == ColonSuffix(f, k + 1)[1]
             IN  Some(Captures(SubSeq(f, i, k), suffix[1], suffix[2]))

\* One start position: the alternatives in the order of the pattern.
MatchAt(f, i) ==
    LET paren == ParenBranch(f, i)
    IN  IF paren # None THEN paren ELSE ColonBranch(f, i)

\* SUFFIX_RE.captures(f).map(|caps| caps.extract()): the leftmost match, and
\* at that position the first alternative that matches.
SuffixReCaptures(f) ==
    LET starts == {i \in 1..Len(f) : MatchAt(f, i) # None}
    IN  IF starts = {} THEN None ELSE MatchAt(f, Min(starts))

-----------------------------------------------------------------------------
(* str::parse::<u32> *)

DigitValue(c) ==
    CASE c = "0" -> 0 [] c = "1" -> 1 [] c = "2" -> 2 [] c = "3" -> 3 [] c = "4" -> 4
      [] c = "5" -> 5 [] c = "6" -> 6 [] c = "7" -> 7 [] c = "8" -> 8 [] c = "9" -> 9

\* u32::MAX = 4294967295, as a numeral.
U32MaxNumeral == <<"4", "2", "9", "4", "9", "6", "7", "2", "9", "5">>

\* A digit string without its leading zeros (one digit is always kept).
Canonical(d) ==
    LET nz == {i \in 1..Len(d) : d[i] # "0"}
    IN  IF nz = {} THEN <<"0">> ELSE SubSeq(d, Min(nz), Len(d))

\* a <= b for two numerals of the same length.
NumeralLeq(a, b) ==
    LET diff == {i \in 1..Len(a) : a[i] # b[i]}
    IN  diff = {} \/ DigitValue(a[Min(diff)]) < DigitValue(b[Min(diff)])

\* The value fits in 32 bits.
FitsU32(d) ==
    LET c == Canonical(d)
    IN  Len(c) < Len(U32MaxNumeral)
        \/ (Len(c) = Len(U32MaxNumeral) /\ NumeralLeq(c, U32MaxNumeral))

\* str::parse::<u32>().ok() on a captured text: None for the empty text, for a
\* character that is not an ASCII digit, and for a value above u32::MAX.
ParseU32(d) ==
    IF d = <<>> \/ (\E i \in 1..Len(d) : d[i] \notin AsciiDigit) \/ ~FitsU32(d)
    THEN None
    ELSE Some(Canonical(d))

-----------------------------------------------------------------------------
(* PathWithPosition *)

PathWithPosition(path, row, column) == [path |-> path, row |-> row, column |-> column]

\* The outcome of a call: a returned value, or a panic.
Returned(v) == [panicked |-> FALSE, value |-> Some(v)]
Panicked == [panicked |-> TRUE, value |-> None]

\* PathWithPosition::from_path
from_path(path) == PathWithPosition(path, None, None)

\* The number of characters of s that make up its first b bytes, or -1 when
\* byte offset b is not a character boundary of s (or lies outside it).
CharsInBytes(s, b) ==
    LET fit == {k \in 0..Len(s) : StrLen(SubSeq(s, 1, k)) = b}
    IN  IF fit = {} THEN -1 ELSE Min(fit)

\* PathWithPosition::parse_str
parse_str(s) ==
    LET trimmed == Trim(s)
        maybe_file_name_with_row_col == file_name(trimmed)
        caps == SuffixReCaptures(maybe_file_name_with_row_col)
    IN  IF maybe_file_name_with_row_col = <<>> THEN Returned(PathWithPosition(s, None, None))
        ELSE IF caps = None THEN Returned(PathWithPosition(s, None, None))
        ELSE LET row == ParseU32(caps[1].maybe_row)
                 column == ParseU32(caps[1].maybe_column)
                 suffix_length == StrLen(maybe_file_name_with_row_col) - StrLen(caps[1].file_name)
                 \* &trimmed[..trimmed.len() - suffix_length]
                 chars == CharsInBytes(trimmed, StrLen(trimmed) - suffix_length)
             IN  IF chars < 0 THEN Panicked
                 ELSE Returned(PathWithPosition(SubSeq(trimmed, 1, chars), row, column))

\* A to_string that leaves the column out.
to_string_without_column(p) ==
    IF p.row # None THEN p.path \o <<Colon>> \o p.row[1] ELSE p.path

\* PathWithPosition::to_string with the identity rendering of the path.
to_string(p) ==
    IF p.row # None
    THEN IF p.column # None
         THEN p.path \o <<Colon>> \o p.row[1] \o <<Colon>> \o p.column[1]
         ELSE p.path \o <<Colon>> \o p.row[1]
    ELSE p.path

-----------------------------------------------------------------------------
(* Inputs *)

\* The longest input drawn from the whole alphabet.
MaxLen == 3

Alphabet == {"a", EAcute, Dot, Slash, Space, NL, Colon, LParen, RParen, Comma, "1",
             ArabicThree}

RECURSIVE StringsUpTo(_)
StringsUpTo(n) ==
    IF n = 0 THEN {<<>>}
    ELSE LET shorter == StringsUpTo(n - 1)
         IN  shorter \cup {Append(s, c) : s \in shorter, c \in Alphabet}

\* u32::MAX + 1 = 4294967296: the shortest numeral that str::parse::<u32>
\* rejects for its value.
OverU32Numeral == <<"4", "2", "9", "4", "9", "6", "7", "2", "9", "6">>

\* Longer inputs are drawn from  lead name suffix tail : a directory part, a
\* file name, a position suffix (well-formed or not) and what may follow it.
Leads == {<<>>, <<Space>>, <<Slash>>, <<"a", Slash>>, <<"a", Colon, "1", Slash>>}

FileNames ==
    {<<"a">>, <<"a", Dot, "a">>, <<EAcute>>, <<"a", EAcute>>, <<"a", Colon, "a">>,
     <<"a", Colon, "1">>, <<"a", NL, "a">>, <<EAcute, NL, "a">>, <<"a", LParen, "a">>}

ColonSuffixes ==
    {<<>>, <<Colon>>, <<Colon, Colon>>,
     <<Colon, "1">>, <<Colon, "1", Colon>>, <<Colon, Colon, "1">>, <<Colon, "1", "2">>,
     <<Colon, "1", Colon, "2">>, <<Colon, "1", Colon, "2", Colon>>,
     <<Colon, Colon, "1", Colon, "2">>, <<Colon, "1", Colon, Colon, "2">>,
     <<Colon, "1", Colon, "2", Colon, "3">>,
     <<Colon, "a">>, <<Colon, "a", Colon, "a">>, <<Colon, "1", "a">>,
     <<Colon, "0", "1">>, <<Colon, ArabicThree>>,
     <<Colon>> \o U32MaxNumeral, <<Colon>> \o OverU32Numeral,
     <<Colon>> \o OverU32Numeral \o <<Colon, "2">>,
     <<Colon, "1", Colon>> \o OverU32Numeral}

ParenSuffixes ==
    {<<LParen, "1", RParen>>, <<LParen, "1", Comma, "2", RParen>>,
     <<LParen, "1", RParen, Colon>>, <<LParen, "1", Comma, "2", RParen, Colon>>,
     <<LParen, "1", RParen, Colon, "2">>, <<Colon, "2", LParen, "1", RParen>>,
     <<LParen, "1", RParen, "a">>, <<LParen, "1", RParen, EAcute>>,
     <<LParen, "1", Comma, RParen>>, <<LParen, "1", Comma, "2">>,
     <<LParen>> \o OverU32Numeral \o <<RParen>>,
     <<LParen>> \o OverU32Numeral \o <<Comma, "2", RParen>>,
     <<LParen, "1", Comma>> \o OverU32Numeral \o <<RParen>>}

Suffixes == ColonSuffixes \cup ParenSuffixes

Tails == {<<>>, <<Space>>, <<Slash>>, <<Slash, Slash>>, <<Slash, Dot>>, <<NL, Slash>>}

PositionInputs ==
    {lead \o name \o suffix \o tail :
        lead \in Leads, name \in FileNames, suffix \in Suffixes, tail \in Tails}

Inputs == StringsUpTo(MaxLen) \cup PositionInputs

-----------------------------------------------------------------------------
(* The calls *)

Init ==
    /\ input \in Inputs
    /\ pc = "start"
    /\ pwp = None
    /\ text = None
    /\ reparsed = None
    /\ MatcherIdle
    /\ CompareIdle
    /\ PathExtIdle
    /\ StoryIdle

CallParseStr ==
    /\ pc = "start"
    /\ LET r == parse_str(input)
       IN  /\ pc' = IF r.panicked THEN "panicked" ELSE "parsed"
           /\ pwp' = r.value
    /\ UNCHANGED <<input, text, reparsed, matcherVars, compareVars, pathExtVars, storyVars>>

CallFromPath ==
    /\ pc = "start"
    /\ pwp' = Some(from_path(input))
    /\ pc' = "constructed"
    /\ UNCHANGED <<input, text, reparsed, matcherVars, compareVars, pathExtVars, storyVars>>

\* The rows and columns of the values built field by field.
Rows == {Some(<<"1">>)}
Columns == {None, Some(<<"2">>)}

\* PathWithPosition { path, row, column }: a value built from its fields.
CallConstruct ==
    /\ pc = "start"
    /\ \E row \in Rows, column \in Columns :
          pwp' = Some(PathWithPosition(input, row, column))
    /\ pc' = "built"
    /\ UNCHANGED <<input, text, reparsed, matcherVars, compareVars, pathExtVars, storyVars>>

CallToString ==
    /\ pc \in {"parsed", "constructed", "built"}
    /\ text' = Some(to_string(pwp[1]))
    /\ pc' = IF pc = "parsed" THEN "printed"
             ELSE IF pc = "constructed" THEN "printed_path" ELSE "printed_value"
    /\ UNCHANGED <<input, pwp, reparsed, matcherVars, compareVars, pathExtVars, storyVars>>

\* PathWithPosition::parse_str(&p.to_string(..)) for a value p that was
\* not itself parsed.
CallParseStrOnText ==
    /\ pc \in {"printed_path", "printed_value"}
    /\ reparsed' = Some(parse_str(text[1]))
    /\ pc' = "reparsed"
    /\ UNCHANGED <<input, pwp, text, matcherVars, compareVars, pathExtVars, storyVars>>

Next == CallParseStr \/ CallFromPath \/ CallConstruct \/ CallToString \/ CallParseStrOnText

Spec == Init /\ [][Next]_vars

-----------------------------------------------------------------------------
(* Common notions of the properties *)

\* parse_str has been called on the input (and returned or panicked).
ParseStrCalled == pc \in {"parsed", "panicked", "printed"}

\* parse_str has returned: pwp[1] is its result.
ParseStrReturned == pc \in {"parsed", "printed"}

TrimmedInput == Trim(input)

\* The first and last index, in the trimmed input, of its final component.
FinalSpan == LastNormalComponent(TrimmedInput, Len(TrimmedInput))

\* The final component of the trimmed input (empty when there is none).
FinalComponent == file_name(TrimmedInput)

\* The trimmed input up to and including the k-th character of its final
\* component.
InputThrough(k) == SubSeq(TrimmedInput, 1, FinalSpan[1] + k - 1)

Contains(f, c) == \E i \in 1..Len(f) : f[i] = c

AsciiDigitsEnd(f, i) == RunEnd({k \in i..Len(f) : f[k] \notin AsciiDigit}, f)

-----------------------------------------------------------------------------
(* C1 *)

\* C1: parse_str is total: on every input it returns a PathWithPosition and
\* never panics (the slice trimmed[..trimmed.len() - suffix_length] is always
\* in range and on a character boundary).
C1_ParseStrNeverPanics == pc # "panicked"

-----------------------------------------------------------------------------
(* C2 *)

\* C2: every PathWithPosition built by parse_str or from_path has a row
\* whenever it has a column.
C2_ColumnImpliesRow ==
    pwp # None => (pwp[1].column # None => pwp[1].row # None)

-----------------------------------------------------------------------------
(* C3 *)

\* A component f of the shape  N  ':'+  R  [ ':' C ]  ':'*  with N non-empty
\* and free of ':' and '(', R and C non-empty runs of ASCII digits:
\* Some([name_end, R, C]) with the two texts (C empty when absent), else None.
ColonFields(f) ==
    LET n == Len(f)
        colons == {i \in 1..n : f[i] = Colon}
        k == Min(colons) - 1
        c1 == ColonsEnd(f, k + 1)
        d1 == AsciiDigitsEnd(f, c1 + 1)
        d2 == AsciiDigitsEnd(f, d1 + 2)
    IN  IF colons = {} THEN None
        ELSE IF k < 1 \/ Contains(SubSeq(f, 1, k), LParen) \/ d1 < c1 + 1 THEN None
        ELSE IF ColonsEnd(f, d1 + 1) = n
        THEN Some([name_end |-> k, R |-> SubSeq(f, c1 + 1, d1), C |-> <<>>])
        ELSE IF f[d1 + 1] = Colon /\ d2 >= d1 + 2 /\ ColonsEnd(f, d2 + 1) = n
        THEN Some([name_end |-> k, R |-> SubSeq(f, c1 + 1, d1), C |-> SubSeq(f, d1 + 2, d2)])
        ELSE None

\* The colon position form of C3: the shape above with R and C fitting in a
\* u32.  Some([name_end, row, column]) when f has the form, else None.
ColonPositionForm(f) ==
    LET fields == ColonFields(f)
    IN  IF fields = None THEN None
        ELSE IF ~FitsU32(fields[1].R) \/ (fields[1].C # <<>> /\ ~FitsU32(fields[1].C)) THEN None
        ELSE Some([name_end |-> fields[1].name_end,
                   row |-> Some(Canonical(fields[1].R)),
                   column |-> IF fields[1].C = <<>> THEN None
                              ELSE Some(Canonical(fields[1].C))])

\* C3: for an input whose final component is N, colons, digits R, optionally
\* one colon and digits C, then trailing colons, parse_str returns the input
\* up to and including N as path, row = R and column = C (None without C).
C3_ColonPositionParsed ==
    (ParseStrCalled /\ ColonPositionForm(FinalComponent) # None) =>
        LET form == ColonPositionForm(FinalComponent)[1]
        IN  /\ ParseStrReturned
            /\ SamePath(pwp[1].path, InputThrough(form.name_end))
            /\ pwp[1].row = form.row
            /\ pwp[1].column = form.column

-----------------------------------------------------------------------------
(* C4 *)

\* f[p..] is a complete colon suffix form: colons, digits, a colon, digits and
\* trailing colons; or colons, digits and trailing colons; or colons only
\* (possibly nothing).
IsColonSuffixForm(f, p) ==
    LET n == Len(f)
        c1 == ColonsEnd(f, p)
        d1 == DigitsEnd(f, c1 + 1)
        d2 == DigitsEnd(f, d1 + 2)
    IN  \/ c1 = n
        \/ c1 >= p /\ d1 >= c1 + 1 /\ ColonsEnd(f, d1 + 1) = n
        \/ c1 >= p /\ d1 >= c1 + 1 /\ d1 + 1 <= n /\ f[d1 + 1] = Colon
           /\ d2 >= d1 + 2 /\ ColonsEnd(f, d2 + 1) = n

\* The length of the shortest non-empty prefix of f whose remainder is a
\* complete colon suffix form (f itself has the empty remainder).
ShortestNamePrefix(f) == Min({k \in 1..Len(f) : IsColonSuffixForm(f, k + 1)})

\* C4: when the final component holds several colon-separated fields (and no
\* parenthesis), the returned path is the input up to the shortest non-empty
\* prefix of the component whose remainder is a complete colon suffix form:
\* only the terminal suffix is stripped, earlier colons stay.
C4_OnlyTerminalSuffixStripped ==
    (ParseStrCalled /\ Contains(FinalComponent, Colon) /\ ~Contains(FinalComponent, LParen)) =>
        /\ ParseStrReturned
        /\ SamePath(pwp[1].path, InputThrough(ShortestNamePrefix(FinalComponent)))

-----------------------------------------------------------------------------
(* C5 *)

\* The text after the last colon of f.
AfterLastColon(f) ==
    SubSeq(f, Max({i \in 1..Len(f) : f[i] = Colon}) + 1, Len(f))

\* C5: if the text after the last colon of the final component is not purely
\* digits (and the component holds no parenthesis), parse_str strips nothing:
\* the path is the whole trimmed input and row = column = None.
C5_NonNumericSuffixKept ==
    (/\ ParseStrCalled
     /\ Contains(FinalComponent, Colon) /\ ~Contains(FinalComponent, LParen)
     /\ \E i \in 1..Len(AfterLastColon(FinalComponent)) :
            ~RegexDigit(AfterLastColon(FinalComponent)[i])) =>
        /\ ParseStrReturned
        /\ SamePath(pwp[1].path, TrimmedInput)
        /\ pwp[1].row = None /\ pwp[1].column = None

-----------------------------------------------------------------------------
(* C6 *)

\* The length of f without its trailing colons.
BeforeTrailingColons(f) ==
    LET other == {i \in 1..Len(f) : f[i] # Colon}
    IN  IF other = {} THEN 0 ELSE Max(other)

\* C6: if the final component is a name (free of ':' and '(') followed only by
\* one or more colons, parse_str removes all those colons from the path and
\* returns row = column = None.
C6_TrailingColonsStripped ==
    LET k == BeforeTrailingColons(FinalComponent)
    IN  (/\ ParseStrCalled
         /\ 1 <= k /\ k < Len(FinalComponent)
         /\ ~Contains(SubSeq(FinalComponent, 1, k), Colon)
         /\ ~Contains(SubSeq(FinalComponent, 1, k), LParen)) =>
            /\ ParseStrReturned
            /\ SamePath(pwp[1].path, InputThrough(k))
            /\ pwp[1].row = None /\ pwp[1].column = None

-----------------------------------------------------------------------------
(* C7 *)

\* A component f that begins  N '(' R ')'  or  N '(' R ',' C ')'  with N
\* non-empty and free of '(', R and C ASCII digits that fit in a u32:
\* Some([name_end, row, column, end]), end being the index of the ')'.
ParenPositionForm(f) ==
    LET n == Len(f)
        opens == {i \in 1..n : f[i] = LParen}
        j == Min(opens)
        d1 == AsciiDigitsEnd(f, j + 1)
        d2 == AsciiDigitsEnd(f, d1 + 2)
        R == SubSeq(f, j + 1, d1)
        C == SubSeq(f, d1 + 2, d2)
    IN  IF opens = {} THEN None
        ELSE IF j < 2 \/ d1 < j + 1 \/ d1 + 1 > n \/ ~FitsU32(R) THEN None
        ELSE IF f[d1 + 1] = RParen
        THEN Some([name_end |-> j - 1, row |-> Some(Canonical(R)), column |-> None,
                   end |-> d1 + 1])
        ELSE IF f[d1 + 1] = Comma /\ d2 >= d1 + 2 /\ d2 + 1 <= n /\ f[d2 + 1] = RParen
                /\ FitsU32(C)
        THEN Some([name_end |-> j - 1, row |-> Some(Canonical(R)),
                   column |-> Some(Canonical(C)), end |-> d2 + 1])
        ELSE None

\* C7: for a final component N(R,C) or N(R), parse_str returns a path ending
\* in N, row = R and column = C (None for N(R)); and when the component holds
\* a colon position besides the parenthesized one, the parenthesized one
\* gives row and column.
C7_ParenPositionParsed ==
    LET found == ParenPositionForm(FinalComponent)
    IN  (/\ ParseStrCalled
         /\ found # None
         /\ (found[1].end = Len(FinalComponent) \/ Contains(FinalComponent, Colon))) =>
            /\ ParseStrReturned
            /\ pwp[1].row = found[1].row
            /\ pwp[1].column = found[1].column
            /\ found[1].end = Len(FinalComponent) =>
                   SamePath(pwp[1].path, InputThrough(found[1].name_end))

-----------------------------------------------------------------------------
(* C8 *)

\* The input carries no row/column suffix: it has no surrounding whitespace
\* and its final component, if any, holds neither ':' nor '('.
CarriesNoSuffix ==
    /\ input = TrimmedInput
    /\ ~Contains(FinalComponent, Colon)
    /\ ~Contains(FinalComponent, LParen)

\* C8: round trip: for an input p that carries no row/column suffix,
\* parse_str(p).to_string(identity) = p.
C8_RoundTrip ==
    CarriesNoSuffix =>
        /\ pc # "panicked"
        /\ pc = "printed" => text = Some(input)

-----------------------------------------------------------------------------
(* C9 *)

\* C9: when the row digits do not fit in a u32, parse_str treats the whole
\* suffix as part of the file name: the path keeps the suffix text and
\* row = column = None; when only the column digits do not fit, only column
\* is None.
C9_RowParseFailureKeepsSuffix ==
    LET fields == ColonFields(FinalComponent)
    IN  (ParseStrCalled /\ fields # None) =>
            /\ ~FitsU32(fields[1].R) =>
                   /\ ParseStrReturned
                   /\ SamePath(pwp[1].path, TrimmedInput)
                   /\ pwp[1].row = None /\ pwp[1].column = None
            /\ (FitsU32(fields[1].R) /\ fields[1].C # <<>> /\ ~FitsU32(fields[1].C)) =>
                   /\ ParseStrReturned
                   /\ pwp[1].row = Some(Canonical(fields[1].R))
                   /\ pwp[1].column = None

-----------------------------------------------------------------------------
(* C10 *)

Last(s) == s[Len(s)]

\* The number of whitespace characters the input begins with, and ends with.
InputInk == {i \in 1..Len(input) : ~IsWhitespace(input[i])}
LeadingWhitespace == IF InputInk = {} THEN Len(input) ELSE Min(InputInk) - 1
TrailingWhitespace == IF InputInk = {} THEN Len(input) ELSE Len(input) - Max(InputInk)

\* p is the slice of the input that starts at index a and has p's length.
IsSliceAt(p, a) == a + Len(p) - 1 <= Len(input) /\ p = SubSeq(input, a, a + Len(p) - 1)

\* The path p carries the input's leading whitespace (it is a slice of the
\* input that starts with that whitespace) or its trailing whitespace (it is
\* a slice that reaches beyond the last character that is not whitespace).
CarriesInputWhitespace(p) ==
    /\ p # <<>>
    /\ \/ LeadingWhitespace > 0 /\ IsSliceAt(p, 1)
       \/ /\ TrailingWhitespace > 0
          /\ \E a \in {1, LeadingWhitespace + 1} :
                 IsSliceAt(p, a) /\ a + Len(p) - 1 > Len(input) - TrailingWhitespace

\* Somewhere in f a parenthesized position follows a character other than
\* '(':  x(R)  or  x(R,C)  with R and C runs of digits.
HoldsParenPosition(f) ==
    \E j \in 2..Len(f) :
        LET d1 == DigitsEnd(f, j + 1)
            d2 == DigitsEnd(f, d1 + 2)
        IN  /\ f[j] = LParen /\ f[j - 1] # LParen
            /\ d1 >= j + 1 /\ d1 + 1 <= Len(f)
            /\ \/ f[d1 + 1] = RParen
               \/ f[d1 + 1] = Comma /\ d2 >= d1 + 2 /\ d2 + 1 <= Len(f) /\ f[d2 + 1] = RParen

\* The file name is one in which the suffix pattern matches nowhere: it ends
\* in a line feed and holds no parenthesized position.
PatternMatchesNowhere(f) == f # <<>> /\ Last(f) = NL /\ ~HoldsParenPosition(f)

\* C10 as stated: the returned path of an input with a file name never
\* carries the input's leading or trailing whitespace; without a file name
\* the path is the input exactly as given and row = column = None.
C10_TrimmedUnlessNoFileName ==
    ParseStrReturned =>
        IF FinalComponent = <<>>
        THEN pwp[1] = PathWithPosition(input, None, None)
        ELSE ~CarriesInputWhitespace(pwp[1].path)

\* C10 as amended: the returned path of an input with a file name never
\* carries the input's leading or trailing whitespace, unless the pattern
\* matches nowhere in the file name; then, and when there is no file name, the
\* path is the input exactly as given and row = column = None.
C10_TrimmedUnlessFallback ==
    ParseStrReturned =>
        IF FinalComponent = <<>> \/ PatternMatchesNowhere(FinalComponent)
        THEN pwp[1] = PathWithPosition(input, None, None)
        ELSE ~CarriesInputWhitespace(pwp[1].path)

\* An input with leading whitespace and a file name has been parsed, and the
\* returned path starts at the first character that is not whitespace.
C10_Witness ==
    /\ pc = "parsed"
    /\ input # <<>> /\ IsWhitespace(input[1])
    /\ FinalComponent # <<>> /\ ~PatternMatchesNowhere(FinalComponent)
    /\ pwp[1].path # <<>> /\ ~IsWhitespace(pwp[1].path[1])

-----------------------------------------------------------------------------
(* globset::Glob::new: the glob parser *)

Star == "*"
Question == "?"
LBracket == "["
RBracket == "]"
LBrace == "{"
RBrace == "}"
Backslash == "\\"

\* globset's Token, one record shape for every kind: Literal(c), Any,
\* ZeroOrMore, RecursivePrefix, RecursiveSuffix, RecursiveZeroOrMore,
\* Class (its characters; no ranges and no negation are written by the
\* patterns modelled) and Alternates (its branches).
Token(kind, c, set, alts) == [kind |-> kind, c |-> c, set |-> set, alts |-> alts]
Literal(c) == Token("Literal", c, {}, <<>>)
AnyOne == Token("Any", "", {}, <<>>)
ZeroOrMore == Token("ZeroOrMore", "", {}, <<>>)
RecursivePrefix == Token("RecursivePrefix", "", {}, <<>>)
RecursiveSuffix == Token("RecursiveSuffix", "", {}, <<>>)
RecursiveZeroOrMore == Token("RecursiveZeroOrMore", "", {}, <<>>)
Class(set) == Token("Class", "", set, <<>>)
Alternates(alts) == Token("Alternates", "", {}, alts)

\* The parser's answer: the tokens, or a syntax error.
GlobOk(tokens) == [ok |-> TRUE, tokens |-> tokens]
GlobErr == [ok |-> FALSE, tokens |-> <<>>]

\* Parser::push_token and Parser::pop_token act on the innermost token list.
PushToken(stack, tok) == [stack EXCEPT ![Len(stack)] = Append(@, tok)]
PopToken(stack) ==
    [stack EXCEPT ![Len(stack)] = SubSeq(@, 1, Len(@) - 1)]
LastToken(stack) == stack[Len(stack)][Len(stack[Len(stack)])]
HaveTokens(stack) == stack[Len(stack)] # <<>>

Reverse(s) == [i \in 1..Len(s) |-> s[Len(s) + 1 - i]]

\* Parser::parse_star for the `*` at index i of g.  The answer is the pair of
\* the new stack and the index of the next character to read.
parse_star(g, i, stack) ==
    LET prev == IF i > 1 THEN g[i - 1] ELSE ""
        peek == IF i + 2 <= Len(g) THEN g[i + 2] ELSE ""
        atEnd == i + 2 > Len(g)
        twoStars == PushToken(PushToken(stack, ZeroOrMore), ZeroOrMore)
    IN  IF i + 1 > Len(g) \/ g[i + 1] # Star THEN <<PushToken(stack, ZeroOrMore), i + 1>>
        ELSE IF ~HaveTokens(stack)
        THEN IF ~atEnd /\ peek # Slash THEN <<twoStars, i + 2>>
             ELSE <<PushToken(stack, RecursivePrefix), i + 3>>
        ELSE IF prev # Slash /\ (Len(stack) <= 1 \/ prev \notin {Comma, LBrace})
        THEN <<twoStars, i + 2>>
        ELSE IF ~(atEnd \/ (peek \in {Comma, RBrace} /\ Len(stack) >= 2) \/ peek = Slash)
        THEN <<twoStars, i + 2>>
        ELSE LET is_suffix == atEnd \/ peek # Slash
                 next == IF is_suffix THEN i + 2 ELSE i + 3
                 last == LastToken(stack)
                 rest == PopToken(stack)
             IN  IF last.kind \in {"RecursivePrefix", "RecursiveSuffix"}
                 THEN <<PushToken(rest, last), next>>
                 ELSE IF is_suffix THEN <<PushToken(rest, RecursiveSuffix), next>>
                 ELSE <<PushToken(rest, RecursiveZeroOrMore), next>>

\* Parser::parse_class for the `[` at index i of g: the first character after
\* the bracket belongs to the class even when it is `]`; the class ends at
\* the next `]`.  The answer is the index of the closing bracket, or 0 for an
\* unclosed class.
ClassEnd(g, i) ==
    LET closes == {k \in (i + 2)..Len(g) : g[k] = RBracket}
    IN  IF closes = {} THEN 0 ELSE Min(closes)

RECURSIVE ParseFrom(_, _, _)
\* Parser::parse from index i of g on, followed by the checks of
\* GlobBuilder::build on the stack that is left.
ParseFrom(g, i, stack) ==
    IF i > Len(g)
    THEN IF Len(stack) > 1 THEN GlobErr ELSE GlobOk(stack[1])
    ELSE LET c == g[i]
         IN  IF c = Question THEN ParseFrom(g, i + 1, PushToken(stack, AnyOne))
             ELSE IF c = Star
             THEN LET r == parse_star(g, i, stack) IN ParseFrom(g, r[2], r[1])
             ELSE IF c = LBracket
             THEN LET e == ClassEnd(g, i)
                  IN  IF e = 0 THEN GlobErr
                      ELSE ParseFrom(g, e + 1,
                              PushToken(stack, Class({g[k] : k \in (i + 1)..(e - 1)})))
             ELSE IF c = LBrace
             THEN IF Len(stack) > 1 THEN GlobErr
                  ELSE ParseFrom(g, i + 1, Append(stack, <<>>))
             ELSE IF c = RBrace
             THEN ParseFrom(g, i + 1,
                     PushToken(<<stack[1]>>,
                               Alternates(Reverse(SubSeq(stack, 2, Len(stack))))))
             ELSE IF c = Comma
             THEN IF Len(stack) <= 1 THEN ParseFrom(g, i + 1, PushToken(stack, Literal(c)))
                  ELSE ParseFrom(g, i + 1, Append(stack, <<>>))
             ELSE IF c = Backslash
             THEN IF i = Len(g) THEN GlobErr
                  ELSE ParseFrom(g, i + 2, PushToken(stack, Literal(g[i + 1])))
             ELSE ParseFrom(g, i + 1, PushToken(stack, Literal(c)))

\* Glob::new(glob): the compiled glob keeps the text it was given (the
\* answer of Glob::glob) next to its tokens.
Glob(glob) ==
    LET p == ParseFrom(glob, 1, <<<<>>>>)
    IN  [ok |-> p.ok, glob |-> glob, tokens |-> p.tokens]

-----------------------------------------------------------------------------
(* globset::GlobSet::is_match: matching a path against compiled globs *)

RECURSIVE RegexIsEmpty(_)
\* The regex text written for the tokens is empty: no token, or only
\* alternations that write nothing.
RegexIsEmpty(tokens) ==
    \A k \in 1..Len(tokens) :
        /\ tokens[k].kind = "Alternates"
        /\ \A b \in 1..Len(tokens[k].alts) : RegexIsEmpty(tokens[k].alts[b])

RECURSIVE MatchEnds(_, _, _)
RECURSIVE StepToken(_, _, _)
\* The offsets of s at which a match of the token can end when it starts at
\* one of the offsets in from (offset k: after the first k characters).  The
\* regex written per token, with `.` matching every byte:
\*   Any `.`, ZeroOrMore `.*`, RecursivePrefix `(?:/?|.*/)`,
\*   RecursiveSuffix `/.*`, RecursiveZeroOrMore `(?:/|/.*/)`,
\*   Class `[...]`, Alternates `(b1|b2|...)` without the empty branches.
StepToken(t, s, from) ==
    LET n == Len(s)
        atSlash == {i \in from : i < n /\ s[i + 1] = Slash}
    IN  CASE t.kind = "Literal" -> {i + 1 : i \in {k \in from : k < n /\ s[k + 1] = t.c}}
          [] t.kind = "Any" -> {i + 1 : i \in {k \in from : k < n}}
          [] t.kind = "ZeroOrMore" -> {j \in 0..n : \E i \in from : j >= i}
          [] t.kind = "RecursivePrefix" ->
                from \cup {j \in 1..n : s[j] = Slash /\ \E i \in from : j > i}
          [] t.kind = "RecursiveSuffix" -> {j \in 1..n : \E i \in atSlash : j > i}
          [] t.kind = "RecursiveZeroOrMore" ->
                {j \in 1..n : s[j] = Slash /\ \E i \in atSlash : j > i}
          [] t.kind = "Class" -> {i + 1 : i \in {k \in from : k < n /\ s[k + 1] \in t.set}}
          [] t.kind = "Alternates" ->
                LET parts == {b \in 1..Len(t.alts) : ~RegexIsEmpty(t.alts[b])}
                IN  IF parts = {} THEN from
                    ELSE UNION {MatchEnds(t.alts[b], s, from) : b \in parts}

\* The offsets at which a match of the token sequence can end.
MatchEnds(tokens, s, from) ==
    IF tokens = <<>> THEN from
    ELSE MatchEnds(Tail(tokens), s, StepToken(Head(tokens), s, from))

\* Glob::compile_matcher().is_match: the regex `^...$` of the tokens matches
\* the whole path; the lone RecursivePrefix (`**`) matches every path.
GlobMatches(tokens, s) ==
    tokens = <<RecursivePrefix>> \/ Len(s) \in MatchEnds(tokens, s, {0})

\* GlobSet::is_match: some glob of the set matches the path.
GlobSetIsMatch(set, s) == \E k \in 1..Len(set) : GlobMatches(set[k].tokens, s)

-----------------------------------------------------------------------------
(* PathMatcher *)

\* struct PathMatcher { sources, glob }
PathMatcher(srcs, glob) == [sources |-> srcs, glob |-> glob]

\* Result<PathMatcher, globset::Error>: the error names the pattern refused.
Ok(m) == [ok |-> TRUE, matcher |-> Some(m), error |-> None]
Err(pattern) == [ok |-> FALSE, matcher |-> None, error |-> Some(pattern)]

\* A PathMatcher::new that looks at the first pattern only.
new_checking_first(globs) ==
    LET compiled == [i \in 1..Len(globs) |-> Glob(globs[i])]
    IN  IF globs # <<>> /\ ~compiled[1].ok THEN Err(globs[1])
        ELSE Ok(PathMatcher([i \in 1..Len(compiled) |-> compiled[i].glob], compiled))

\* PathMatcher::new: every pattern is compiled, the first error is returned;
\* the sources are read back from the compiled globs, which then form the
\* glob set.
new(globs) ==
    LET compiled == [i \in 1..Len(globs) |-> Glob(globs[i])]
        bad == {i \in 1..Len(globs) : ~compiled[i].ok}
    IN  IF bad # {} THEN Err(globs[Min(bad)])
        ELSE Ok(PathMatcher([i \in 1..Len(compiled) |-> compiled[i].glob], compiled))

\* #[derive(Default)]: no source and the empty glob set.
default == PathMatcher(<<>>, <<>>)

\* PathMatcher::sources
sources(m) == m.sources

\* An equality that compares the numbers of patterns only.
eq_by_count(m, other) == Len(m.sources) = Len(other.sources)

\* impl PartialEq for PathMatcher
eq(m, other) == m.sources = other.sources

\* <[u8]>::starts_with and ends_with
starts_with(s, prefix) == Len(prefix) <= Len(s) /\ SubSeq(s, 1, Len(prefix)) = prefix
\* An ends_with that is true of the whole text only.
ends_with_all(s, suffix) == s = suffix

ends_with(s, suffix) ==
    Len(suffix) <= Len(s) /\ SubSeq(s, Len(s) - Len(suffix) + 1, Len(s)) = suffix

\* A retry that forgets to append the separator.
check_without_appending(m, path) ==
    IF ends_with(path, <<Slash>>) THEN FALSE
    ELSE GlobSetIsMatch(m.glob, path)

\* PathMatcher::check_with_end_separator
check_with_end_separator(m, path) ==
    IF ends_with(path, <<Slash>>) THEN FALSE
    ELSE GlobSetIsMatch(m.glob, path \o <<Slash>>)

\* An is_match without the retry with a separator appended.
is_match_without_separator_retry(m, other) ==
    \/ \E k \in 1..Len(m.sources) :
          starts_with(other, m.sources[k]) \/ ends_with(other, m.sources[k])
    \/ GlobSetIsMatch(m.glob, other)

\* PathMatcher::is_match
is_match(m, other) ==
    \/ \E k \in 1..Len(m.sources) :
          starts_with(other, m.sources[k]) \/ ends_with(other, m.sources[k])
    \/ GlobSetIsMatch(m.glob, other)
    \/ check_with_end_separator(m, other)

-----------------------------------------------------------------------------
(* The patterns and paths given to the matcher *)

\* The longest pattern drawn from the whole glob alphabet, and the longest
\* list of patterns.
MaxGlobLen == 3
MaxGlobs == 2

\* The glob syntax modelled: literals, `?`, `*`, `**`, classes without
\* ranges or negation, escapes, and alternations that are not nested.
GlobAlphabet == {"a", Slash, Star, Question, LBracket, RBracket, Backslash}

RECURSIVE GlobsUpTo(_)
GlobsUpTo(n) ==
    IF n = 0 THEN {<<>>}
    ELSE LET shorter == GlobsUpTo(n - 1)
         IN  shorter \cup {Append(s, c) : s \in shorter, c \in GlobAlphabet}

NodeModules == <<"n", "o", "d", "e", "_", "m", "o", "d", "u", "l", "e", "s">>

\* The patterns that lists are made of: directory globs, among them the
\* `**/node_modules/**` of the tests, plain ones, and three that Glob::new
\* refuses (unclosed class, unclosed alternation, dangling escape).
NamedGlobs ==
    {<<"a">>, <<"a", Slash, Star, Star>>, <<Star, Star, Slash, "a", Slash, Star, Star>>,
     <<Star, Star, Slash>> \o NodeModules \o <<Slash, Star, Star>>,
     <<Star, "a">>, <<LBrace, "a", Comma, "b", RBrace>>,
     <<LBracket, "a">>, <<LBrace, "a">>, <<"a", Backslash>>}

RECURSIVE ListsUpTo(_, _)
ListsUpTo(pool, n) ==
    IF n = 0 THEN {<<>>}
    ELSE LET shorter == ListsUpTo(pool, n - 1)
         IN  shorter \cup {Append(l, g) : l \in shorter, g \in pool}

GlobLists == ListsUpTo(NamedGlobs, MaxGlobs) \cup {<<g>> : g \in GlobsUpTo(MaxGlobLen)}

\* The lists a second matcher is built from: the same list, the list in
\* reverse, without its last pattern, and with one more pattern.
Variants(l) ==
    {l, Reverse(l), SubSeq(l, 1, Len(l) - 1)} \cup {Append(l, g) : g \in NamedGlobs}

\* The paths asked about: short ones, the two of the tests, and for every
\* named pattern its own text, alone and after or before another character.
NamedPaths ==
    {<<>>, <<"a">>, <<"b">>, <<Slash>>, <<Slash, "a">>, <<"a", Slash>>,
     <<"a", Slash, "b">>, <<"b", Slash, "a">>, <<"b", Slash, "a", Slash>>,
     <<"b", Slash, "a", Slash, "b">>, <<"a", "b">>, <<"b", "a">>,
     NodeModules, <<Slash, "w", "o", "r", "k", Slash>> \o NodeModules,
     <<Slash, "w", "o", "r", "k", Slash>> \o NodeModules \o <<Slash>>,
     <<Slash, "U", "s", "e", "r", "s", Slash, "s", "o", "m", "e", "o", "n", "e", "t", "o",
       "i", "g", "n", "o", "r", "e", Slash, "w", "o", "r", "k", Slash, "z", "e", "d", Slash,
       "z", "e", "d", Dot, "d", "e", "v", Slash>> \o NodeModules,
     <<Slash, "w", "o", "r", "k", Slash>> \o NodeModules \o <<"2">>}

Candidates ==
    NamedPaths \cup NamedGlobs \cup {<<"b">> \o g : g \in NamedGlobs}
        \cup {g \o <<"b">> : g \in NamedGlobs}

-----------------------------------------------------------------------------
(* The calls on the matcher *)

ParserIdle == input = <<>> /\ pc = "idle" /\ pwp = None /\ text = None /\ reparsed = None

InitMatcher ==
    /\ patterns \in GlobLists
    /\ matcher = None
    /\ second = None
    /\ candidate = None
    /\ verdict = None
    /\ verdict_dir = None
    /\ mpc = "start"
    /\ ParserIdle
    /\ CompareIdle
    /\ PathExtIdle
    /\ StoryIdle

CallNew ==
    /\ mpc = "start"
    /\ matcher' = Some(new(patterns))
    /\ mpc' = IF new(patterns).ok THEN "built" ELSE "refused"
    /\ UNCHANGED <<patterns, second, candidate, verdict, verdict_dir, parserVars, compareVars, pathExtVars, storyVars>>

\* PathMatcher::default(): no pattern is given.
CallDefault ==
    /\ mpc = "start"
    /\ patterns' = <<>>
    /\ matcher' = Some(Ok(default))
    /\ mpc' = "defaulted"
    /\ UNCHANGED <<second, candidate, verdict, verdict_dir, parserVars, compareVars, pathExtVars, storyVars>>

\* is_match on a path.
CallIsMatch ==
    /\ mpc \in {"built", "defaulted"}
    /\ \E p \in Candidates :
          /\ candidate' = Some(p)
          /\ verdict' = Some(is_match(matcher[1].matcher[1], p))
    /\ mpc' = "matched"
    /\ UNCHANGED <<patterns, matcher, second, verdict_dir, parserVars, compareVars, pathExtVars, storyVars>>

\* is_match once more, on the same path with a separator appended.
CallIsMatchDir ==
    /\ mpc = "matched"
    /\ ~ends_with(candidate[1], <<Slash>>)
    /\ verdict_dir' = Some(is_match(matcher[1].matcher[1], candidate[1] \o <<Slash>>))
    /\ mpc' = "matched_dir"
    /\ UNCHANGED <<patterns, matcher, second, candidate, verdict, parserVars, compareVars, pathExtVars, storyVars>>

\* PathMatcher::new on a second list.
CallNewOther ==
    /\ mpc \in {"built", "defaulted"}
    /\ \E l \in Variants(patterns) : second' = Some([globs |-> l, result |-> new(l)])
    /\ mpc' = "paired"
    /\ UNCHANGED <<patterns, matcher, candidate, verdict, verdict_dir, parserVars, compareVars, pathExtVars, storyVars>>

\* matcher == second
CallEq ==
    /\ mpc = "paired"
    /\ second[1].result.ok
    /\ verdict' = Some(eq(matcher[1].matcher[1], second[1].result.matcher[1]))
    /\ mpc' = "compared"
    /\ UNCHANGED <<patterns, matcher, second, candidate, verdict_dir, parserVars, compareVars, pathExtVars, storyVars>>

NextMatcher ==
    CallNew \/ CallDefault \/ CallIsMatch \/ CallIsMatchDir \/ CallNewOther \/ CallEq

SpecMatcher == InitMatcher /\ [][NextMatcher]_vars

-----------------------------------------------------------------------------
(* Characters by code point, Ordering *)

\* The printable ASCII characters in code point order, U+0020 to U+007E
\* (the two quotes and the grave accent are written by their code points).
Printable ==
    <<" ", "!", "U+0022", "#", "$", "%", "&", "U+0027", "(", ")", "*", "+", ",", "-", ".", "/",
      "0", "1", "2", "3", "4", "5", "6", "7", "8", "9", ":", ";", "<", "=", ">", "?",
      "@", "A", "B", "C", "D", "E", "F", "G", "H", "I", "J", "K", "L", "M", "N", "O",
      "P", "Q", "R", "S", "T", "U", "V", "W", "X", "Y", "Z", "[", "\\", "]", "^", "_",
      "U+0060", "a", "b", "c", "d", "e", "f", "g", "h", "i", "j", "k", "l", "m", "n", "o",
      "p", "q", "r", "s", "t", "u", "v", "w", "x", "y", "z", "{", "|", "}", "~">>

\* The code point of a character.  The order of code points is also the
\* order of the UTF-8 encodings compared byte by byte.
CodePoint(c) ==
    IF c = NL THEN 10
    ELSE IF c = EAcute THEN 233
    ELSE IF c = ArabicThree THEN 1635
    ELSE 31 + CHOOSE k \in 1..Len(Printable) : Printable[k] = c

\* char::is_ascii_digit
is_ascii_digit(c) == c \in AsciiDigit

\* std::cmp::Ordering
Less == "Less"
Equal == "Equal"
Greater == "Greater"
\* The outcome of a comparison that panicked.
Panic == "Panic"

\* Ord::cmp on integers.
CmpInt(x, y) == IF x < y THEN Less ELSE IF x > y THEN Greater ELSE Equal

\* Ordering::then_with (a panic on the way ends the comparison).
Then(first, second_) == IF first = Equal THEN second_ ELSE first

\* Ordering::reverse
reverse(o) == IF o = Less THEN Greater ELSE IF o = Greater THEN Less ELSE o

RECURSIVE CmpStr(_, _)
\* Ord::cmp on str and on OsStr: lexicographic, a proper prefix first.
CmpStr(a, b) ==
    IF a = <<>> /\ b = <<>> THEN Equal
    ELSE IF a = <<>> THEN Less
    ELSE IF b = <<>> THEN Greater
    ELSE Then(CmpInt(CodePoint(Head(a)), CodePoint(Head(b))), CmpStr(Tail(a), Tail(b)))

-----------------------------------------------------------------------------
(* u64 arithmetic on numerals *)

\* u64::MAX + 1 = 2^64 = 18446744073709551616.
TwoTo64 ==
    <<"1", "8", "4", "4", "6", "7", "4", "4", "0", "7", "3", "7", "0", "9", "5", "5", "1",
      "6", "1", "6">>

DigitChar(n) == <<"0", "1", "2", "3", "4", "5", "6", "7", "8", "9">>[n + 1]

\* Ord::cmp on the values of two numerals.
CmpNumeral(a, b) ==
    LET x == Canonical(a)
        y == Canonical(b)
    IN  Then(CmpInt(Len(x), Len(y)), CmpStr(x, y))

RECURSIVE SubDigits(_, _, _, _)
\* The digits 1..k of a - b for two digit strings of one length, a >= b,
\* with the borrow carried into digit k.
SubDigits(a, b, k, borrow) ==
    IF k = 0 THEN <<>>
    ELSE LET x == DigitValue(a[k]) - DigitValue(b[k]) - borrow
         IN  SubDigits(a, b, k - 1, IF x < 0 THEN 1 ELSE 0)
                 \o <<DigitChar(IF x < 0 THEN x + 10 ELSE x)>>

\* a - b on numerals, a >= b.
SubNumeral(a, b) ==
    LET pad == [i \in 1..(Len(a) - Len(b)) |-> "0"] \o b
    IN  Canonical(SubDigits(a, pad, Len(a), 0))

RECURSIVE WrapU64(_)
\* The value modulo 2^64: what wrapping u64 arithmetic leaves.
WrapU64(d) ==
    IF CmpNumeral(d, TwoTo64) = Less THEN Canonical(d)
    ELSE WrapU64(SubNumeral(Canonical(d), TwoTo64))

-----------------------------------------------------------------------------
(* parse_number, natural_sort *)

RECURSIVE Accumulate(_, _, _, _, _)
\* The loop of parse_number over the digits s[i..e] with `number` so far:
\* number = number * 10 + digit in u64.  With overflow checks (a debug
\* build) an overflow panics; without them (a release build) it wraps.
Accumulate(s, i, e, number, checks) ==
    IF i > e THEN [panicked |-> FALSE, number |-> number]
    ELSE LET exact == Canonical(number \o <<s[i]>>)
         IN  IF CmpNumeral(exact, TwoTo64) # Less /\ checks
             THEN [panicked |-> TRUE, number |-> <<>>]
             ELSE Accumulate(s, i + 1, e, WrapU64(exact), checks)

\* parse_number on the iterator at index i of s: the number, the count of
\* digits consumed and the index the iterator is left at.
parse_number(s, i, checks) ==
    LET e == RunEnd({k \in i..Len(s) : ~is_ascii_digit(s[k])}, s)
        r == Accumulate(s, i, e, <<"0">>, checks)
    IN  [panicked |-> r.panicked, number |-> r.number, count |-> e - i + 1, next |-> e + 1]

RECURSIVE NaturalSortFrom(_, _, _, _, _)
\* The loop of natural_sort with a_iter at index i of a and b_iter at j of b.
NaturalSortFrom(a, b, i, j, checks) ==
    IF i > Len(a) /\ j > Len(b) THEN Equal
    ELSE IF i > Len(a) THEN Less
    ELSE IF j > Len(b) THEN Greater
    ELSE IF is_ascii_digit(a[i]) /\ is_ascii_digit(b[j])
    THEN LET pa == parse_number(a, i, checks)
             pb == parse_number(b, j, checks)
         IN  IF pa.panicked \/ pb.panicked THEN Panic
             ELSE LET o == Then(CmpNumeral(pa.number, pb.number),
                                CmpInt(pa.count, pb.count))
                  IN  IF o = Equal THEN NaturalSortFrom(a, b, pa.next, pb.next, checks)
                      ELSE o
    ELSE LET o == CmpInt(CodePoint(a[i]), CodePoint(b[j]))
         IN  IF o = Equal THEN NaturalSortFrom(a, b, i + 1, j + 1, checks) ELSE o

\* natural_sort
natural_sort(a, b, checks) == NaturalSortFrom(a, b, 1, 1, checks)

-----------------------------------------------------------------------------
(* Path::file_name, file_stem and extension of one component *)

\* Path::new(component.as_os_str()).file_name(): the component when it is a
\* Normal one, None for RootDir, CurDir and ParentDir.
component_file_name(c) == IF file_name(c) = <<>> THEN None ELSE Some(c)

\* std's rsplit_file_at_dot: the texts before and after the last dot of a
\* file name, as the pair (before, after) of Options.
rsplit_file_at_dot(file) ==
    LET dots == {i \in 1..Len(file) : file[i] = Dot}
    IN  IF file = <<Dot, Dot>> THEN <<Some(file), None>>
        ELSE IF dots = {} THEN <<None, Some(file)>>
        ELSE IF Max(dots) = 1 THEN <<Some(file), None>>
        ELSE <<Some(SubSeq(file, 1, Max(dots) - 1)),
               Some(SubSeq(file, Max(dots) + 1, Len(file)))>>

\* A file_stem that keeps the extension.
file_stem_with_extension(c) == component_file_name(c)

\* Path::file_stem: before.or(after)
file_stem(c) ==
    IF component_file_name(c) = None THEN None
    ELSE LET split == rsplit_file_at_dot(c)
         IN  IF split[1] # None THEN split[1] ELSE split[2]

\* Path::extension: before.and(after)
extension(c) ==
    IF component_file_name(c) = None THEN None
    ELSE LET split == rsplit_file_at_dot(c)
         IN  IF split[1] # None THEN split[2] ELSE None

-----------------------------------------------------------------------------
(* NumericPrefixWithSuffix *)

\* char::to_ascii_lowercase, as a code point.
LowerCodePoint(c) ==
    IF CodePoint(c) >= 65 /\ CodePoint(c) <= 90 THEN CodePoint(c) + 32 ELSE CodePoint(c)

RECURSIVE CmpIgnoreCase(_, _)
\* The comparison of two texts without regard to case.
CmpIgnoreCase(a, b) ==
    IF a = <<>> /\ b = <<>> THEN Equal
    ELSE IF a = <<>> THEN Less
    ELSE IF b = <<>> THEN Greater
    ELSE Then(CmpInt(LowerCodePoint(Head(a)), LowerCodePoint(Head(b))),
              CmpIgnoreCase(Tail(a), Tail(b)))

\* NumericPrefixWithSuffix(prefix, remainder)
NumericPrefixWithSuffix(prefix, remainder) == [prefix |-> prefix, remainder |-> remainder]

\* NumericPrefixWithSuffix::from_numeric_prefixed_str: the leading run of
\* digits as a number (None when there is none) and the rest of the name.
from_numeric_prefixed_str(s) ==
    LET e == RunEnd({k \in 1..Len(s) : ~is_ascii_digit(s[k])}, s)
    IN  NumericPrefixWithSuffix(IF e = 0 THEN None ELSE Some(Canonical(SubSeq(s, 1, e))),
                                SubSeq(s, e + 1, Len(s)))

\* The remainders: without regard to case first, and the names that differ
\* in case only by the reverse of their byte order.
CmpRemainder(a, b) == Then(CmpIgnoreCase(a, b), reverse(CmpStr(a, b)))

\* Ord for NumericPrefixWithSuffix: numerically on the prefix first (a name
\* with a prefix before a name without), then by remainder.
CmpNumericPrefixWithSuffix(x, y) ==
    IF x.prefix = None /\ y.prefix = None THEN CmpRemainder(x.remainder, y.remainder)
    ELSE IF x.prefix = None THEN Greater
    ELSE IF y.prefix = None THEN Less
    ELSE Then(CmpNumeral(x.prefix[1], y.prefix[1]), CmpRemainder(x.remainder, y.remainder))

-----------------------------------------------------------------------------
(* compare_paths_with_strategy *)

\* enum SortStrategy
Lexicographical == "Lexicographical"
Alphabetical == "Alphabetical"
SortStrategy == {Lexicographical, Alphabetical}

\* Ord::cmp on bool: false before true.
CmpBool(x, y) == IF x = y THEN Equal ELSE IF y THEN Less ELSE Greater

\* The Alphabetical arm.
CmpAlphabetical(x, y, checks) ==
    IF x # None /\ y # None THEN natural_sort(x[1], y[1], checks)
    ELSE IF x # None THEN Greater
    ELSE IF y # None THEN Less
    ELSE Equal

\* A Lexicographical arm that orders by natural_sort as well.
CmpLexicographicalNatural(x, y) == CmpAlphabetical(x, y, FALSE)

\* The Lexicographical arm: Ord on Option<NumericPrefixWithSuffix>, None
\* before Some.
CmpLexicographical(x, y) ==
    IF x = None /\ y = None THEN Equal
    ELSE IF x = None THEN Less
    ELSE IF y = None THEN Greater
    ELSE CmpNumericPrefixWithSuffix(from_numeric_prefixed_str(x[1]),
                                    from_numeric_prefixed_str(y[1]))

\* OsStr of extension().unwrap_or_default()
ExtensionOrDefault(c) == IF extension(c) = None THEN <<>> ELSE extension(c)[1]

\* A comparison of two components that ranks files and directories alike.
CompareComponentsByNameOnly(component_a, a_is_file, component_b, b_is_file, sort_strategy, checks) ==
    IF sort_strategy = Lexicographical
    THEN CmpLexicographical(component_file_name(component_a),
                            component_file_name(component_b))
    ELSE CmpAlphabetical(component_file_name(component_a),
                         component_file_name(component_b), checks)

\* The `ordering` of one step of the loop, for a component of each path and
\* whether each is its path's file.
CompareComponents(component_a, a_is_file, component_b, b_is_file, sort_strategy, checks) ==
    LET path_string_a == IF a_is_file THEN file_stem(component_a)
                         ELSE component_file_name(component_a)
        path_string_b == IF b_is_file THEN file_stem(component_b)
                         ELSE component_file_name(component_b)
        compare_components ==
            IF sort_strategy = Lexicographical
            THEN CmpLexicographical(path_string_a, path_string_b)
            ELSE CmpAlphabetical(path_string_a, path_string_b, checks)
    IN  Then(CmpBool(a_is_file, b_is_file),
             Then(compare_components,
                  IF a_is_file /\ b_is_file
                  THEN CmpStr(ExtensionOrDefault(component_a),
                              ExtensionOrDefault(component_b))
                  ELSE Equal))

RECURSIVE CompareFromLongerFirst(_, _, _, _, _)
\* The loop with the two arms for a path that ends first exchanged.
CompareFromLongerFirst(a, b, k, sort_strategy, checks) ==
    IF k <= Len(a[1]) /\ k <= Len(b[1])
    THEN LET ordering == CompareComponents(a[1][k], k = Len(a[1]) /\ a[2],
                                           b[1][k], k = Len(b[1]) /\ b[2],
                                           sort_strategy, checks)
         IN  IF ordering # Equal THEN ordering
             ELSE CompareFromLongerFirst(a, b, k + 1, sort_strategy, checks)
    ELSE IF k <= Len(a[1]) THEN Less
    ELSE IF k <= Len(b[1]) THEN Greater
    ELSE Equal

RECURSIVE CompareFrom(_, _, _, _, _)
\* The loop of compare_paths_with_strategy at its k-th turn; a and b are the
\* pairs (components of the path, is_file).
CompareFrom(a, b, k, sort_strategy, checks) ==
    IF k <= Len(a[1]) /\ k <= Len(b[1])
    THEN LET ordering == CompareComponents(a[1][k], k = Len(a[1]) /\ a[2],
                                           b[1][k], k = Len(b[1]) /\ b[2],
                                           sort_strategy, checks)
         IN  IF ordering # Equal THEN ordering
             ELSE CompareFrom(a, b, k + 1, sort_strategy, checks)
    ELSE IF k <= Len(a[1]) THEN Greater
    ELSE IF k <= Len(b[1]) THEN Less
    ELSE Equal

\* A comparison that puts the path with components left over first.
compare_paths_longer_first(a, b, sort_strategy, checks) ==
    CompareFromLongerFirst(<<Components(a[1]), a[2]>>, <<Components(b[1]), b[2]>>, 1,
                           sort_strategy, checks)

\* compare_paths_with_strategy((path_a, a_is_file), (path_b, b_is_file),
\* sort_strategy)
compare_paths_with_strategy(a, b, sort_strategy, checks) ==
    CompareFrom(<<Components(a[1]), a[2]>>, <<Components(b[1]), b[2]>>, 1,
                sort_strategy, checks)

-----------------------------------------------------------------------------
(* slice::sort_by with compare_paths_with_strategy *)

\* The outcome of a sort: the list in order, or a panic of the comparison.
Sorted(l) == [panicked |-> FALSE, list |-> l]
SortPanicked == [panicked |-> TRUE, list |-> <<>>]

\* The slice after one step of an insertion: x stays behind the last element
\* of l unless it is Less (o), and otherwise goes into the rest (shorter).
InsertStep(l, x, o, shorter) ==
    IF o = Panic THEN SortPanicked
    ELSE IF o # Less THEN Sorted(Append(l, x))
    ELSE IF shorter.panicked THEN SortPanicked
    ELSE Sorted(Append(shorter.list, l[Len(l)]))

RECURSIVE InsertTail(_, _, _, _)
\* One insertion of the stable sort of a short slice: x moves left past the
\* elements it is Less than.
InsertTail(l, x, sort_strategy, checks) ==
    IF l = <<>> THEN Sorted(<<x>>)
    ELSE InsertStep(l, x,
                    compare_paths_with_strategy(x, l[Len(l)], sort_strategy, checks),
                    InsertTail(SubSeq(l, 1, Len(l) - 1), x, sort_strategy, checks))

RECURSIVE SortFrom(_, _, _, _, _)
\* The sort goes on from element k + 1 of l, unless the insertion of
\* element k (next) panicked.
SortStep(l, k, next, sort_strategy, checks) ==
    IF next.panicked THEN SortPanicked
    ELSE SortFrom(l, k + 1, next.list, sort_strategy, checks)

\* The sort with the first k - 1 elements of l in order in `done`.
SortFrom(l, k, done, sort_strategy, checks) ==
    IF k > Len(l) THEN Sorted(done)
    ELSE SortStep(l, k, InsertTail(done, l[k], sort_strategy, checks), sort_strategy, checks)

\* paths.sort_by(|&a, &b| compare_paths_with_strategy(a, b, strategy))
sort_by(l, sort_strategy, checks) == SortFrom(l, 1, <<>>, sort_strategy, checks)

-----------------------------------------------------------------------------
(* The paths given to the comparator *)

TestDirs == <<"t", "e", "s", "t", "_", "d", "i", "r", "s">>
Txt == <<Dot, "t", "x", "t">>
\* dir/name
In(dir, name) == dir \o <<Slash>> \o name
FileTxt(stem) == <<In(TestDirs, stem \o Txt), TRUE>>
FolderFile(n) ==
    <<In(In(TestDirs, <<"f", "o", "l", "d", "e", "r">> \o n), <<"f", "i", "l", "e">> \o Txt),
      TRUE>>

\* The three lists sorted by test_compare_paths_with_sort_strategy.
TestFiles ==
    <<FileTxt(<<"f", "i", "l", "e", "1", "0">>), FileTxt(<<"f", "i", "l", "e", "2">>),
      FileTxt(<<"f", "i", "l", "e", "1">>), <<TestDirs, FALSE>> >>
TestMixedCase ==
    <<FileTxt(<<"F", "i", "l", "e", "-", "1">>), FileTxt(<<"f", "i", "l", "e", "-", "1", "0">>),
      FileTxt(<<"F", "i", "l", "e", "-", "2">>), FileTxt(<<"f", "i", "l", "e", "-", "2", "0">>),
      <<TestDirs, FALSE>> >>
TestFolders ==
    <<FolderFile(<<"2">>), FolderFile(<<"1", "0">>), FolderFile(<<"1">>),
      <<TestDirs, FALSE>> >>

\* The (path, is_file) pairs that lists of three are made of: names that
\* differ in case, in extension, in digit runs (among them 2^64, the least
\* run that does not fit a u64), files and directories of one name, a file
\* inside a directory, and paths without a file name.
PathPool ==
    {<<<<"a">>, FALSE>>, <<<<"a">>, TRUE>>, <<<<"A">>, TRUE>>,
     <<<<"a", Dot, "b">>, TRUE>>, <<<<"a", Dot, "b">>, FALSE>>, <<<<"a", Dot, "B">>, TRUE>>,
     <<<<"a", Dot>>, TRUE>>, <<<<"a", Slash, "b">>, TRUE>>, <<<<"a", Slash, "a", Dot, "b">>, TRUE>>,
     <<<<"1">>, TRUE>>, <<<<"0", "1">>, TRUE>>, <<<<"2">>, TRUE>>, <<<<"1", "0">>, TRUE>>,
     <<<<"a", "2">>, TRUE>>, <<<<"a", "1", "0">>, TRUE>>, <<TwoTo64, TRUE>>,
     <<<<Slash>>, FALSE>>, <<<<Dot, Dot>>, FALSE>>}

\* Two files of one stem and two directories of which one has a dot-suffix.
DottedNames ==
    <<<<<<"a", Dot, "B">>, TRUE>>, <<<<"a", Dot, "b">>, TRUE>>,
      <<<<"a", Dot, "b">>, FALSE>>, <<<<"a">>, FALSE>> >>

PathLists ==
    {<<a, b, c>> : a \in PathPool, b \in PathPool, c \in PathPool}
        \cup {TestFiles, TestMixedCase, TestFolders, DottedNames}

-----------------------------------------------------------------------------
(* The calls on the comparator *)

InitCompare ==
    /\ entries \in PathLists
    /\ strategy \in SortStrategy
    /\ overflow_checks \in BOOLEAN
    /\ orderings = <<>>
    /\ sorted = None
    /\ cpc = "start"
    /\ ParserIdle
    /\ MatcherIdle
    /\ PathExtIdle
    /\ StoryIdle

\* compare_paths_with_strategy on the next pair of entries, row by row:
\* orderings[(i - 1) * n + j] is the answer for entries i and j.
CallCompare ==
    /\ cpc \in {"start", "comparing"}
    /\ LET n == Len(entries)
           i == (Len(orderings) \div n) + 1
           j == (Len(orderings) % n) + 1
       IN  /\ orderings' = Append(orderings,
                                 compare_paths_with_strategy(entries[i], entries[j],
                                                             strategy, overflow_checks))
           /\ cpc' = IF Len(orderings) + 1 = n * n THEN "compared" ELSE "comparing"
    /\ UNCHANGED <<entries, strategy, overflow_checks, sorted, parserVars, matcherVars, pathExtVars, storyVars>>

\* entries.sort_by(compare_paths_with_strategy)
CallSortBy ==
    /\ cpc = "start"
    /\ sorted' = Some(sort_by(entries, strategy, overflow_checks))
    /\ cpc' = "sorted"
    /\ UNCHANGED <<entries, strategy, overflow_checks, orderings, parserVars, matcherVars, pathExtVars, storyVars>>

NextCompare == CallCompare \/ CallSortBy

SpecCompare == InitCompare /\ [][NextCompare]_vars

-----------------------------------------------------------------------------
(* Properties of PathMatcher *)

\* The matcher held: built by PathMatcher::new or by Default.
HasMatcher == matcher # None /\ matcher[1].ok
TheMatcher == matcher[1].matcher[1]

\* C11: PathMatcher::new returns an error, and no matcher, whenever at least
\* one of the given patterns is not a valid glob, wherever it stands in the
\* list and however many valid ones there are; it returns Ok when every
\* pattern is valid, the empty list included.
C11_NewFailsOnAnyInvalidGlob ==
    mpc \in {"built", "refused"} =>
        /\ matcher[1].ok = (\A i \in 1..Len(patterns) : Glob(patterns[i]).ok)
        /\ matcher[1].ok = (matcher[1].matcher # None)

\* new has refused a list whose first pattern is valid and whose last is not.
C11_Witness ==
    /\ mpc = "refused" /\ Len(patterns) > 1
    /\ Glob(patterns[1]).ok /\ ~Glob(patterns[Len(patterns)]).ok

\* C12: every matcher built by new or Default has one source per compiled
\* pattern, in the order given and equal to the given pattern strings; two
\* matchers are equal exactly when their sources are.
C12_SourcesInStep ==
    /\ HasMatcher =>
          /\ sources(TheMatcher) = patterns
          /\ Len(sources(TheMatcher)) = Len(TheMatcher.glob)
          /\ \A k \in 1..Len(patterns) : TheMatcher.glob[k].glob = patterns[k]
    /\ mpc = "compared" =>
          /\ verdict[1] = (sources(TheMatcher) = sources(second[1].result.matcher[1]))
          /\ verdict[1] = (patterns = second[1].globs)

\* Two matchers of the same two patterns in opposite orders compared unequal.
C12_Witness ==
    /\ mpc = "compared" /\ verdict = Some(FALSE)
    /\ Len(patterns) > 1 /\ second[1].globs = Reverse(patterns)

\* The three steps of is_match, each stated on the path itself.
TextStep(m, p) ==
    \E k \in 1..Len(m.sources), n \in 0..Len(p) :
        SubSeq(p, 1, n) = m.sources[k] \/ SubSeq(p, n + 1, Len(p)) = m.sources[k]
GlobStep(m, p) == GlobSetIsMatch(m.glob, p)
SeparatorStep(m, p) ==
    (p = <<>> \/ p[Len(p)] # Slash) /\ GlobSetIsMatch(m.glob, Append(p, Slash))

\* C13: is_match(p) is true exactly when (1) p starts or ends with the
\* source of a pattern, or (2) the glob set matches p, or (3) p does not end
\* with the separator and the glob set matches p with a separator appended.
C13_IsMatchSteps ==
    mpc \in {"matched", "matched_dir"} =>
        verdict[1] = (\/ TextStep(TheMatcher, candidate[1])
                      \/ GlobStep(TheMatcher, candidate[1])
                      \/ SeparatorStep(TheMatcher, candidate[1]))

\* A path matched by the third step alone.
C13_Witness ==
    /\ mpc = "matched" /\ verdict = Some(TRUE)
    /\ ~TextStep(TheMatcher, candidate[1]) /\ ~GlobStep(TheMatcher, candidate[1])

\* Every pattern of the matcher is a directory glob: it ends in `/**`.
DirectoryGlobs ==
    \A k \in 1..Len(patterns) : ends_with(patterns[k], <<Slash, Star, Star>>)

NodeModulesGlob == <<Star, Star, Slash>> \o NodeModules \o <<Slash, Star, Star>>

\* The matcher of `**/node_modules/**` matches the two bare directory
\* paths of the tests.
NodeModulesMatched ==
    (/\ mpc \in {"matched", "matched_dir"} /\ patterns = <<NodeModulesGlob>>
     /\ Len(candidate[1]) > Len(NodeModules) /\ candidate[1][1] = Slash
     /\ ends_with(candidate[1], <<Slash>> \o NodeModules))
        => verdict = Some(TRUE)

\* C14: for a matcher of directory globs and a path p without trailing
\* separator, is_match(p) equals is_match(p with a trailing separator); the
\* matcher of `**/node_modules/**` matches the bare directory paths.
C14_TrailingSeparatorIrrelevant ==
    /\ (mpc = "matched_dir" /\ DirectoryGlobs) => verdict = verdict_dir
    /\ NodeModulesMatched

\* C14 as amended: the same, for the paths that do not end with the text of
\* one of the patterns.
C14_TrailingSeparatorIrrelevantOffText ==
    /\ (/\ mpc = "matched_dir" /\ DirectoryGlobs
        /\ \A k \in 1..Len(patterns) : ~ends_with(candidate[1], patterns[k]))
          => verdict = verdict_dir
    /\ NodeModulesMatched

\* A bare directory path that the glob set does not match as it stands was
\* matched with and without the separator.
C14_Witness ==
    /\ mpc = "matched_dir" /\ DirectoryGlobs /\ patterns # <<>>
    /\ verdict = Some(TRUE) /\ verdict_dir = Some(TRUE)
    /\ ~GlobStep(TheMatcher, candidate[1])
    /\ \A k \in 1..Len(patterns) : ~ends_with(candidate[1], patterns[k])

-----------------------------------------------------------------------------
(* Properties of compare_paths_with_strategy *)

\* Every pair of entries has been compared.
AllCompared == cpc = "compared"

Positions == 1..Len(entries)

\* The Ordering returned for entries i and j.
Ord(i, j) == orderings[(i - 1) * Len(entries) + j]

\* C15: for each strategy compare_paths_with_strategy is a strict weak
\* ordering: compare(a, a) = Equal; compare(a, b) = Less exactly when
\* compare(b, a) = Greater; Less is transitive; Equal is transitive and
\* compatible with Less.
C15_StrictWeakOrdering ==
    AllCompared =>
        /\ \A i \in Positions : Ord(i, i) = Equal
        /\ \A i, j \in Positions : (Ord(i, j) = Less) = (Ord(j, i) = Greater)
        /\ \A i, j, k \in Positions :
              /\ (Ord(i, j) = Less /\ Ord(j, k) = Less) => Ord(i, k) = Less
              /\ (Ord(i, j) = Equal /\ Ord(j, k) = Equal) => Ord(i, k) = Equal
              /\ (Ord(i, j) = Equal /\ Ord(j, k) = Less) => Ord(i, k) = Less

\* The k-th component of an entry counts as a file.
IsFileAt(e, k) == k = Len(Components(e[1])) /\ e[2]

\* The first k components of a and of b have compared Equal, one by one.
EqualThrough(a, b, k) ==
    \A d \in 1..k :
        CompareComponents(Components(a[1])[d], IsFileAt(a, d),
                          Components(b[1])[d], IsFileAt(b, d),
                          strategy, overflow_checks) = Equal

\* The depths at which both paths have a component, one of them a file and
\* the other a directory, and all earlier components compared Equal.
MixedDepths(a, b) ==
    {d \in 1..Len(Components(a[1])) :
        /\ d <= Len(Components(b[1]))
        /\ IsFileAt(a, d) # IsFileAt(b, d)
        /\ EqualThrough(a, b, d - 1)}

\* C16: at the first depth where one side's component is a directory and
\* the other's a file, after components that compared Equal, the side with
\* the directory is Less, whatever the names and the strategy; a component
\* is a file only as the last one of a path whose is_file flag is true.
C16_DirectoryBeforeFile ==
    AllCompared =>
        \A i, j \in Positions :
            MixedDepths(entries[i], entries[j]) # {} =>
                Ord(i, j) = IF IsFileAt(entries[i], Min(MixedDepths(entries[i], entries[j])))
                            THEN Greater ELSE Less

\* The directory `a.b` came out Less than the file `a`, and the file `a/b`,
\* whose first component is a directory, Less than the file `a`.
C16_Witness ==
    /\ AllCompared
    /\ entries[1] = <<<<"a", Dot, "b">>, FALSE>> /\ entries[2] = <<<<"a">>, TRUE>>
    /\ entries[3] = <<<<"a", Slash, "b">>, TRUE>>
    /\ Ord(1, 2) = Less /\ Ord(3, 2) = Less

\* The path of the entry is one component with a name.
SingleName(e) == Components(e[1]) = <<e[1]>> /\ file_name(e[1]) = e[1]

\* A name without its final extension, and that extension: the texts around
\* the last dot, unless the name has no dot or only a leading one.
LastDot(n) == Max({0} \cup {k \in 1..Len(n) : n[k] = Dot})
NameWithoutExtension(n) == IF LastDot(n) <= 1 THEN n ELSE SubSeq(n, 1, LastDot(n) - 1)
FinalExtension(n) == IF LastDot(n) <= 1 THEN <<>> ELSE SubSeq(n, LastDot(n) + 1, Len(n))

\* The maximal run of ASCII digits at the start of a name, and what follows.
LeadingRun(n) == SubSeq(n, 1, AsciiDigitsEnd(n, 1))
AfterRun(n) == SubSeq(n, AsciiDigitsEnd(n, 1) + 1, Len(n))

RECURSIVE NaturalOrder(_, _)
\* Natural order: maximal runs of ASCII digits by numeric value, then by
\* digit count; every other character by code point.
NaturalOrder(a, b) ==
    IF a = <<>> /\ b = <<>> THEN Equal
    ELSE IF a = <<>> THEN Less
    ELSE IF b = <<>> THEN Greater
    ELSE IF LeadingRun(a) # <<>> /\ LeadingRun(b) # <<>>
    THEN Then(Then(CmpNumeral(LeadingRun(a), LeadingRun(b)),
                   CmpInt(Len(LeadingRun(a)), Len(LeadingRun(b)))),
              NaturalOrder(AfterRun(a), AfterRun(b)))
    ELSE Then(CmpInt(CodePoint(Head(a)), CodePoint(Head(b))),
              NaturalOrder(Tail(a), Tail(b)))

\* The lists of the tests in the orders the tests expect.
FilesNatural == <<TestFiles[4], TestFiles[3], TestFiles[2], TestFiles[1]>>
FilesByText == <<TestFiles[4], TestFiles[3], TestFiles[1], TestFiles[2]>>
MixedCaseNatural ==
    <<TestMixedCase[5], TestMixedCase[1], TestMixedCase[3], TestMixedCase[2],
      TestMixedCase[4]>>
MixedCaseByText ==
    <<TestMixedCase[5], TestMixedCase[1], TestMixedCase[2], TestMixedCase[3],
      TestMixedCase[4]>>
FoldersNatural == <<TestFolders[4], TestFolders[3], TestFolders[1], TestFolders[2]>>
FoldersByText == <<TestFolders[4], TestFolders[3], TestFolders[2], TestFolders[1]>>

\* sort_by has returned the entries in the order l.
SortedAs(l) == sorted = Some(Sorted(l))

\* C17: under Alphabetical component names are compared by natural order
\* (digit runs by numeric value, then by digit count; other characters by
\* code point); so the files of the tests sort file1, file2, file10, the
\* folders folder1, folder2, folder10, and File-1, File-2, file-10, file-20.
C17_AlphabeticalIsNaturalOrder ==
    strategy = Alphabetical =>
        /\ AllCompared =>
              \A i, j \in Positions :
                  (/\ SingleName(entries[i]) /\ SingleName(entries[j])
                   /\ entries[i][2] = entries[j][2]) =>
                      Ord(i, j) =
                          IF entries[i][2]
                          THEN Then(NaturalOrder(NameWithoutExtension(entries[i][1]),
                                                 NameWithoutExtension(entries[j][1])),
                                    CmpStr(FinalExtension(entries[i][1]),
                                           FinalExtension(entries[j][1])))
                          ELSE NaturalOrder(entries[i][1], entries[j][1])
        /\ cpc = "sorted" =>
              /\ entries = TestFiles => SortedAs(FilesNatural)
              /\ entries = TestMixedCase => SortedAs(MixedCaseNatural)
              /\ entries = TestFolders => SortedAs(FoldersNatural)

\* C18: under Lexicographical file2 is ordered before file10, so the files
\* file10.txt, file2.txt, file1.txt sort file1.txt, file2.txt, file10.txt,
\* as they do under Alphabetical.
C18_LexicographicalAgreesOnFiles ==
    (strategy = Lexicographical /\ entries = TestFiles) =>
        /\ AllCompared => Ord(2, 1) = Less
        /\ cpc = "sorted" =>
              /\ SortedAs(FilesNatural)
              /\ sorted[1] = sort_by(entries, Alphabetical, overflow_checks)

\* C18 as amended: under Lexicographical file2 and file10 have no leading
\* digit run and are compared as text, so file10 is ordered before file2 and
\* the files sort file1.txt, file10.txt, file2.txt, unlike under
\* Alphabetical.
C18_LexicographicalDiffersOnFiles ==
    (strategy = Lexicographical /\ entries = TestFiles) =>
        /\ AllCompared => (Ord(2, 1) = Greater /\ Ord(1, 2) = Less)
        /\ cpc = "sorted" =>
              /\ SortedAs(FilesByText)
              /\ sorted[1] # sort_by(entries, Alphabetical, overflow_checks)

\* The files of the test have been sorted under Lexicographical.
C18_Witness ==
    /\ cpc = "sorted" /\ strategy = Lexicographical /\ entries = TestFiles
    /\ ~sorted[1].panicked /\ sorted[1].list[3] = TestFiles[1]

\* The order of two names by their leading digit runs (when both have one)
\* and then by the rest as text without regard to case.
LeadingRunOrder(a, b) ==
    Then(IF LeadingRun(a) # <<>> /\ LeadingRun(b) # <<>>
         THEN CmpNumeral(LeadingRun(a), LeadingRun(b)) ELSE Equal,
         CmpIgnoreCase(AfterRun(a), AfterRun(b)))

\* The name of an entry that is compared: the stem of a file, the whole
\* name of a directory.
ComparedName(e) == IF e[2] THEN NameWithoutExtension(e[1]) ELSE e[1]

\* C19: under Lexicographical only a digit run at the very start of a name
\* is compared numerically and the rest as case-insensitive text; so the
\* lists of the tests sort test_dirs, file1.txt, file10.txt, file2.txt; the
\* folders folder1, folder10, folder2; and File-1.txt, file-10.txt,
\* File-2.txt, file-20.txt.
C19_LexicographicalLeadingRunOnly ==
    strategy = Lexicographical =>
        /\ AllCompared =>
              \A i, j \in Positions :
                  (/\ SingleName(entries[i]) /\ SingleName(entries[j])
                   /\ entries[i][2] = entries[j][2]
                   /\ (LeadingRun(ComparedName(entries[i])) = <<>>)
                        = (LeadingRun(ComparedName(entries[j])) = <<>>)
                   /\ LeadingRunOrder(ComparedName(entries[i]),
                                      ComparedName(entries[j])) # Equal) =>
                      Ord(i, j) = LeadingRunOrder(ComparedName(entries[i]),
                                                  ComparedName(entries[j]))
        /\ cpc = "sorted" =>
              /\ entries = TestFiles => SortedAs(FilesByText)
              /\ entries = TestMixedCase => SortedAs(MixedCaseByText)
              /\ entries = TestFolders => SortedAs(FoldersByText)

\* The mixed-case files of the test have been sorted under Lexicographical.
C19_Witness ==
    /\ cpc = "sorted" /\ strategy = Lexicographical /\ entries = TestMixedCase
    /\ SortedAs(MixedCaseByText)

\* The comparison of two names under the strategy in use.
StrategyOrder(a, b) ==
    IF strategy = Lexicographical THEN CmpLexicographical(Some(a), Some(b))
    ELSE CmpAlphabetical(Some(a), Some(b), overflow_checks)

\* The last components of a and b are compared: the paths have as many
\* components, the earlier ones compared Equal, and the last have names.
LastCompared(a, b) ==
    LET ca == Components(a[1])
        cb == Components(b[1])
    IN  /\ ca # <<>> /\ Len(ca) = Len(cb)
        /\ EqualThrough(a, b, Len(ca) - 1)
        /\ file_name(ca[Len(ca)]) # <<>> /\ file_name(cb[Len(cb)]) # <<>>

LastName(e) == Components(e[1])[Len(Components(e[1]))]

\* C20: two terminal files are compared by their stems under the strategy
\* and, only if the stems compare Equal, by their extensions; directories
\* are compared by their full names and without the extension tie-break.
C20_StemThenExtension ==
    AllCompared =>
        \A i, j \in Positions :
            LET a == entries[i]
                b == entries[j]
            IN  (LastCompared(a, b) /\ a[2] = b[2]) =>
                    Ord(i, j) =
                        IF a[2]
                        THEN Then(StrategyOrder(NameWithoutExtension(LastName(a)),
                                                NameWithoutExtension(LastName(b))),
                                  CmpStr(FinalExtension(LastName(a)),
                                         FinalExtension(LastName(b))))
                        ELSE StrategyOrder(LastName(a), LastName(b))

\* The files `a.B` and `a.b`, of one stem, were ordered by their extensions,
\* and the directory `a.b` after the directory `a` by its full name.
C20_Witness ==
    /\ AllCompared
    /\ entries = DottedNames
    /\ Ord(1, 2) = Less
    /\ Ord(3, 4) = Greater

\* Every component of a has compared Equal to the component of b at its
\* depth, and b has components left.
ExhaustedFirst(a, b) ==
    /\ Len(Components(a[1])) < Len(Components(b[1]))
    /\ EqualThrough(a, b, Len(Components(a[1])))

\* a is a directory and b a path inside it.
Inside(a, b) ==
    /\ ~a[2]
    /\ Len(Components(a[1])) < Len(Components(b[1]))
    /\ SubSeq(Components(b[1]), 1, Len(Components(a[1]))) = Components(a[1])

\* C21: if every component of a compares Equal to the component of b at
\* its depth and a has fewer components, compare(a, b) is Less under both
\* strategies; so the directory test_dirs is Less than test_dirs/file1.txt,
\* and a sort places a directory before everything inside it.
C21_ShorterPathFirst ==
    /\ AllCompared =>
          \A i, j \in Positions :
              /\ ExhaustedFirst(entries[i], entries[j]) =>
                    (Ord(i, j) = Less /\ Ord(j, i) = Greater)
              /\ Inside(entries[i], entries[j]) => Ord(i, j) = Less
    /\ (cpc = "sorted" /\ ~sorted[1].panicked) =>
          \A p, q \in 1..Len(sorted[1].list) :
              Inside(sorted[1].list[p], sorted[1].list[q]) => p < q

\* The directory test_dirs was compared with the files inside it, and was
\* found Less than each.
C21_Witness ==
    /\ AllCompared /\ entries = TestFiles
    /\ \A j \in 1..3 : ExhaustedFirst(entries[4], entries[j]) /\ Ord(4, j) = Less

-----------------------------------------------------------------------------
(* PathExt: compact and extension_or_hidden_file_name *)

Tilde == "~"

RECURSIVE ComponentSpansFrom(_, _)
\* The components of s from index i on, each as the pair of its first and
\* last index: separators and `.` runs are passed over.
ComponentSpansFrom(s, i) ==
    IF i > Len(s) THEN <<>>
    ELSE IF s[i] = Slash THEN ComponentSpansFrom(s, i + 1)
    ELSE LET e == RunEnd({k \in i..Len(s) : s[k] = Slash}, s)
         IN  IF SubSeq(s, i, e) = <<Dot>> THEN ComponentSpansFrom(s, e + 1)
             ELSE <<<<i, e>>>> \o ComponentSpansFrom(s, e + 1)

\* Path::components on Unix as index pairs: RootDir for a leading
\* separator, CurDir for a leading `.` run of a relative path, then the
\* rest.
ComponentSpans(s) ==
    IF s # <<>> /\ s[1] = Slash THEN <<<<1, 1>>>> \o ComponentSpansFrom(s, 2)
    ELSE IF s # <<>> /\ RunEnd({k \in 1..Len(s) : s[k] = Slash}, s) = 1 /\ s[1] = Dot
    THEN <<<<1, 1>>>> \o ComponentSpansFrom(s, 2)
    ELSE ComponentSpansFrom(s, 1)

\* Result<&Path, StripPrefixError>
StripOk(path) == [ok |-> TRUE, path |-> path]
StripErr == [ok |-> FALSE, path |-> <<>>]

\* A strip_prefix that compares the texts of the paths, not their components.
strip_prefix_by_text(path, base) ==
    IF starts_with(path, base) THEN StripOk(SubSeq(path, Len(base) + 1, Len(path)))
    ELSE StripErr

\* Path::strip_prefix: the components of base are matched against the
\* leading components of path (iter_after) and the rest is handed back by
\* Components::as_path, the text from its first to its last component.
strip_prefix(path, base) ==
    LET spans == ComponentSpans(path)
        names == [k \in 1..Len(spans) |-> SubSeq(path, spans[k][1], spans[k][2])]
        n == Len(Components(base))
    IN  IF n <= Len(spans) /\ SubSeq(names, 1, n) = Components(base)
        THEN StripOk(IF n = Len(spans) THEN <<>>
                     ELSE SubSeq(path, spans[n + 1][1], spans[Len(spans)][2]))
        ELSE StripErr

\* PathBuf::push on Unix: an absolute path replaces the buffer; otherwise a
\* separator is added unless the buffer is empty or ends with one.
push(buf, path) ==
    IF path # <<>> /\ path[1] = Slash THEN path
    ELSE IF buf # <<>> /\ buf[Len(buf)] # Slash THEN buf \o <<Slash>> \o path
    ELSE buf \o path

\* The values of target_os for which compact shortens.
Linux == "linux"
FreeBsd == "freebsd"
MacOs == "macos"
Windows == "windows"
TargetOs == {Linux, FreeBsd, MacOs, Windows}

\* PathExt::compact, for the home directory home_dir() returns
compact(path, home_dir, os) ==
    IF os \in {Linux, FreeBsd} \/ os = MacOs
    THEN LET stripped == strip_prefix(path, home_dir)
         IN  IF stripped.ok THEN push(push(<<>>, <<Tilde>>), stripped.path)
             ELSE path
    ELSE path

\* An extension_or_hidden_file_name without the file stem to fall back on.
extension_only(path) ==
    IF file_name(path) = <<>> THEN None
    ELSE IF Head(file_name(path)) = Dot THEN Some(Tail(file_name(path)))
    ELSE extension(file_name(path))

\* PathExt::extension_or_hidden_file_name
extension_or_hidden_file_name(path) ==
    IF file_name(path) = <<>> THEN None
    ELSE IF Head(file_name(path)) = Dot THEN Some(Tail(file_name(path)))
    ELSE IF extension(file_name(path)) # None THEN extension(file_name(path))
    ELSE file_stem(file_name(path))

-----------------------------------------------------------------------------
(* The paths given to the PathExt methods *)

\* The longest path drawn from the whole alphabet.
MaxPathLen == 4

PathAlphabet == {"h", "x", Slash, Dot}

RECURSIVE PathsUpTo(_)
PathsUpTo(n) ==
    IF n = 0 THEN {<<>>}
    ELSE LET shorter == PathsUpTo(n - 1)
         IN  shorter \cup {Append(s, c) : s \in shorter, c \in PathAlphabet}

\* The home directories: absolute paths of one and of two components.
HomeDirs == {<<Slash, "h">>, <<Slash, "h", Slash, "x">>}

SomeFileTxt == <<"s", "o", "m", "e", "_", "f", "i", "l", "e">> \o Txt

\* The names of test_extension_or_hidden_file_name, and a name without a dot.
TestNames ==
    {<<"f", "i", "l", "e", "_", "n", "a", "m", "e", Dot, "r", "s">>,
     <<"f", "i", "l", "e", Dot, "n", "a", "m", "e", Dot, "r", "s">>,
     <<"l", "o", "n", "g", Dot, "f", "i", "l", "e", Dot, "n", "a", "m", "e", Dot, "r", "s">>,
     <<Dot, "g", "i", "t", "i", "g", "n", "o", "r", "e">>,
     <<Dot, "e", "s", "l", "i", "n", "t", "r", "c", Dot, "j", "s">>,
     <<"M", "a", "k", "e", "f", "i", "l", "e">>}

\* The paths of a home directory: short ones, the path of test_path_compact
\* and the names of the other test, inside the home directory and outside.
PathsFor(h) ==
    PathsUpTo(MaxPathLen)
        \cup {h \o tail : tail \in {<<>>, <<Slash>>, <<"x">>, <<Slash, "x">>,
                                    <<Slash, Slash, "x", Slash>>,
                                    <<Slash, Dot, Slash, "x">>, <<Slash, Dot, Dot>>}}
        \cup {In(h, SomeFileTxt)}
        \cup {In(d, n) : d \in {h, <<Slash, "a", Slash, "b", Slash, "c">>}, n \in TestNames}

-----------------------------------------------------------------------------
(* The calls on a path *)

InitPathExt ==
    /\ target_os \in TargetOs
    /\ home \in HomeDirs
    /\ subject \in PathsFor(home)
    /\ compacted = None
    /\ hidden_name = None
    /\ xpc = "start"
    /\ ParserIdle
    /\ MatcherIdle
    /\ CompareIdle
    /\ StoryIdle

\* path.compact()
CallCompact ==
    /\ xpc = "start"
    /\ compacted' = Some(compact(subject, home, target_os))
    /\ xpc' = "compacted"
    /\ UNCHANGED <<target_os, home, subject, hidden_name, parserVars, matcherVars,
                   compareVars, storyVars>>

\* path.extension_or_hidden_file_name()
CallExtensionOrHiddenFileName ==
    /\ xpc = "start"
    /\ hidden_name' = Some(extension_or_hidden_file_name(subject))
    /\ xpc' = "named"
    /\ UNCHANGED <<target_os, home, subject, compacted, parserVars, matcherVars,
                   compareVars, storyVars>>

NextPathExt == CallCompact \/ CallExtensionOrHiddenFileName

SpecPathExt == InitPathExt /\ [][NextPathExt]_vars

-----------------------------------------------------------------------------
(* Properties of the PathExt methods *)

\* The components of the subject, and whether those of the home directory
\* are the first of them.
HomeIsPrefix ==
    /\ Len(Components(home)) <= Len(Components(subject))
    /\ SubSeq(Components(subject), 1, Len(Components(home))) = Components(home)

\* The components of the subject after those of the home directory.
Remainder ==
    SubSeq(Components(subject), Len(Components(home)) + 1, Len(Components(subject)))

Shortens == target_os \in {Linux, FreeBsd, MacOs}

\* C22: on Linux, FreeBSD and macOS compact() of a path with the home
\* directory as a component-wise prefix is `~` joined with the remainder
\* (home/some_file.txt becomes ~/some_file.txt); for every other path, and on
\* every other platform, compact() returns the path unchanged.
C22_CompactReplacesHome ==
    xpc = "compacted" =>
        /\ (Shortens /\ HomeIsPrefix) =>
              /\ Components(compacted[1]) = <<<<Tilde>>>> \o Remainder
              /\ compacted[1][1] = Tilde
        /\ (Shortens /\ subject = In(home, SomeFileTxt)) =>
              compacted[1] = In(<<Tilde>>, SomeFileTxt)
        /\ ~(Shortens /\ HomeIsPrefix) => compacted[1] = subject

\* The path of the test was compacted on Linux.
C22_Witness ==
    /\ xpc = "compacted" /\ target_os = Linux /\ subject = In(home, SomeFileTxt)
    /\ compacted = Some(In(<<Tilde>>, SomeFileTxt))

\* The file name of the subject (empty when it has none) and the indices
\* of its dots.
SubjectName == file_name(subject)
SubjectDots == {k \in 1..Len(SubjectName) : SubjectName[k] = Dot}
AfterLastDot == SubSeq(SubjectName, Max(SubjectDots) + 1, Len(SubjectName))

\* C23: extension_or_hidden_file_name returns, for a file name starting
\* with '.', the name without that dot; otherwise the text after the last
\* '.' of the file name; and None when the path has no file name.
C23_ExtensionOrHiddenName ==
    xpc = "named" =>
        /\ SubjectName = <<>> => hidden_name[1] = None
        /\ (SubjectName # <<>> /\ Head(SubjectName) = Dot) =>
              hidden_name[1] = Some(Tail(SubjectName))
        /\ (SubjectName # <<>> /\ Head(SubjectName) # Dot) =>
              (SubjectDots # {} /\ hidden_name[1] = Some(AfterLastDot))

\* C23 as amended: for a file name starting with '.', the name without that
\* dot; otherwise the text after the last '.' if the name has one and the
\* whole file name if it has none; and None when the path has no file name.
C23_ExtensionOrHiddenNameOrWholeName ==
    xpc = "named" =>
        /\ SubjectName = <<>> => hidden_name[1] = None
        /\ (SubjectName # <<>> /\ Head(SubjectName) = Dot) =>
              hidden_name[1] = Some(Tail(SubjectName))
        /\ (SubjectName # <<>> /\ Head(SubjectName) # Dot /\ SubjectDots # {}) =>
              hidden_name[1] = Some(AfterLastDot)
        /\ (SubjectName # <<>> /\ SubjectDots = {}) =>
              hidden_name[1] = Some(SubjectName)

\* The method was called on a path whose file name has no dot.
C23_Witness ==
    /\ xpc = "named"
    /\ SubjectName = <<"M", "a", "k", "e", "f", "i", "l", "e">>
    /\ hidden_name[1] = Some(SubjectName)

-----------------------------------------------------------------------------
(* Further properties of parse_str *)

\* The trimmed input before its final component.
DirectoryPart == SubSeq(TrimmedInput, 1, FinalSpan[1] - 1)

\* d holds a ':' or a '(' followed by a digit, as `dir:12` and `dir(12)` do.
LooksPositioned(d) ==
    \E i \in 1..(Len(d) - 1) : d[i] \in {Colon, LParen} /\ d[i + 1] \in AsciiDigit

\* C24: a position-like suffix is recognized only in the final component:
\* for an input with a non-final component like `name:row` or `name(row)`
\* and a final component without suffix, parse_str returns the whole trimmed
\* input as path with row = column = None; and the components before the
\* final one are never altered.
C24_SuffixOnlyInFinalComponent ==
    (ParseStrCalled /\ FinalComponent # <<>>) =>
        /\ ParseStrReturned => starts_with(Trim(pwp[1].path), DirectoryPart)
        /\ (/\ LooksPositioned(DirectoryPart)
            /\ ~Contains(FinalComponent, Colon)
            /\ ~Contains(FinalComponent, LParen)) =>
              /\ ParseStrReturned
              /\ SamePath(pwp[1].path, TrimmedInput)
              /\ pwp[1].row = None /\ pwp[1].column = None

\* The text parse_str has cut off the end of the trimmed input.
Stripped == SubSeq(TrimmedInput, Len(pwp[1].path) + 1, Len(TrimmedInput))

\* parse_str has returned a path shorter than the trimmed input.
HasStripped ==
    /\ ParseStrReturned
    /\ pwp[1].path # input
    /\ Len(pwp[1].path) < Len(TrimmedInput)

\* t is one parenthesized group `(row)` or `(row,column)` and then colons
\* only.
IsParenGroup(t) ==
    LET d1 == DigitsEnd(t, 2)
        d2 == DigitsEnd(t, d1 + 2)
    IN  /\ t # <<>> /\ t[1] = LParen /\ d1 >= 2 /\ d1 + 1 <= Len(t)
        /\ \/ t[d1 + 1] = RParen /\ ColonsEnd(t, d1 + 2) = Len(t)
           \/ /\ t[d1 + 1] = Comma /\ d2 >= d1 + 2 /\ d2 + 1 <= Len(t)
              /\ t[d2 + 1] = RParen /\ ColonsEnd(t, d2 + 2) = Len(t)

\* t is position syntax: colons and digits in one of the suffix forms, or a
\* parenthesized group.
IsPositionSyntax(t) == IsColonSuffixForm(t, 1) \/ IsParenGroup(t)

\* C27: whenever parse_str strips anything, the returned path followed by
\* the stripped text is the trimmed input, the stripped text is position
\* syntax of the final component and nothing else, and no colon is left at
\* the end of the path (but for a component that starts with one).
C27_OnlyPositionSyntaxStripped ==
    HasStripped =>
        /\ pwp[1].path \o Stripped = TrimmedInput
        /\ IsPositionSyntax(Stripped)
        /\ FinalSpan[1] <= Len(pwp[1].path) /\ FinalSpan[2] = Len(TrimmedInput)
        /\ Last(pwp[1].path) = Colon => Len(pwp[1].path) = FinalSpan[1]

\* The value p was built from its fields or by from_path, printed and the
\* text parsed.
Reparsed == pc = "reparsed"

\* The precondition of the round trip: a column only with a row, and a
\* path whose final component is not empty and holds no ':', no '(', no
\* line feed and no whitespace at its ends.
RoundTripValue(p) ==
    LET name == file_name(p.path)
    IN  /\ p.column # None => p.row # None
        /\ name # <<>>
        /\ ~Contains(name, Colon) /\ ~Contains(name, LParen) /\ ~Contains(name, NL)
        /\ ~IsWhitespace(name[1]) /\ ~IsWhitespace(name[Len(name)])

\* C28: round trip from value to string and back: for every value p with
\* that precondition, parse_str(p.to_string(identity)) = p.
C28_ValueRoundTrip ==
    (Reparsed /\ RoundTripValue(pwp[1])) => reparsed[1] = Returned(pwp[1])

\* The path has no whitespace at its ends and ends with its final
\* component: no separator and no `.` follows it.
PlainPath(path) ==
    /\ path = Trim(path)
    /\ file_name(path) # <<>>
    /\ LastNormalComponent(path, Len(path))[2] = Len(path)

\* C28 as amended: for every value p with a column only if it has a row and
\* a path that has no whitespace at its ends and ends with a non-empty final
\* component free of ':', '(' and line feeds,
\* parse_str(p.to_string(identity)) = p.
C28_PlainValueRoundTrip ==
    (Reparsed /\ RoundTripValue(pwp[1]) /\ PlainPath(pwp[1].path)) =>
        reparsed[1] = Returned(pwp[1])

\* The value a/a:1:2 was built from its fields, printed and parsed back.
C28_Witness ==
    /\ Reparsed
    /\ pwp[1] = PathWithPosition(<<"a", Slash, "a">>, Some(<<"1">>), Some(<<"2">>))
    /\ text[1] = <<"a", Slash, "a", Colon, "1", Colon, "2">>
    /\ reparsed[1] = Returned(pwp[1])

-----------------------------------------------------------------------------
(* The text step of is_match *)

\* C25: is_match is true whenever the bytes of the candidate begin or end
\* with the source text of a pattern, also when the glob set matches
\* neither the candidate nor the candidate with a separator appended: it can
\* be true of paths that the globs alone reject.
C25_TextStepMatchesAlone ==
    (mpc \in {"matched", "matched_dir"} /\ TextStep(TheMatcher, candidate[1])) =>
        verdict = Some(TRUE)

\* is_match was true of a path that ends with the source of a pattern and
\* that the globs reject, with and without a separator appended.
C25_Witness ==
    /\ mpc = "matched" /\ verdict = Some(TRUE)
    /\ patterns = <<<<"a">>>> /\ candidate = Some(<<"b", "a">>)
    /\ ~GlobSetIsMatch(TheMatcher.glob, candidate[1])
    /\ ~GlobSetIsMatch(TheMatcher.glob, Append(candidate[1], Slash))

-----------------------------------------------------------------------------
(* Digit runs that do not fit in 64 bits *)

\* The entry is a file whose name is one run of ASCII digits.
DigitRunFile(e) ==
    /\ SingleName(e) /\ e[2]
    /\ \A k \in 1..Len(e[1]) : is_ascii_digit(e[1][k])

\* C26: for digit runs of any length the Alphabetical comparison orders two
\* names by the true numeric value of the runs: the accumulation of
\* parse_number never overflows or wraps, so a run of 20 or more digits
\* never panics and never compares as smaller than a smaller number.
C26_DigitRunsByTrueValue ==
    (AllCompared /\ strategy = Alphabetical) =>
        \A i, j \in Positions :
            /\ Ord(i, j) # Panic
            /\ (DigitRunFile(entries[i]) /\ DigitRunFile(entries[j])) =>
                  Ord(i, j) = Then(CmpNumeral(entries[i][1], entries[j][1]),
                                   CmpInt(Len(entries[i][1]), Len(entries[j][1])))

-----------------------------------------------------------------------------
(* Entries that compare Equal *)

\* The two entries have the same path components and the same is_file flag.
SameEntry(a, b) == Components(a[1]) = Components(b[1]) /\ a[2] = b[2]

\* No two of the entries are the same.
DistinctEntries == \A i, j \in Positions : i # j => ~SameEntry(entries[i], entries[j])

\* C29: under Alphabetical compare_paths_with_strategy returns Equal only
\* for arguments with the same path components and the same is_file flag;
\* two different file names of one directory never compare Equal, so the
\* sorted order of distinct entries does not depend on the order given.
C29_EqualOnlyForSameEntry ==
    strategy = Alphabetical =>
        /\ AllCompared =>
              \A i, j \in Positions :
                  Ord(i, j) = Equal => SameEntry(entries[i], entries[j])
        /\ (cpc = "sorted" /\ DistinctEntries) =>
              sorted[1] = sort_by(Reverse(entries), strategy, overflow_checks)

-----------------------------------------------------------------------------
(* CircleProgressBarStory: the animation task of `new` and `render`.       *)
(* progress is an f32 that only ever holds multiples of 0.5 between 0 and  *)
(* 100.5, all of which f32 represents exactly, so the additions are exact. *)
(* The model keeps 2 * progress as an integer.                             *)

\* `let max_value = 100.0;` in CircleProgressBarStory::render.
max_value == 100

\* A tick that never resets.
tick_without_reset(p) == p + 1

\* The closure given to this.update: progress += 0.5, then back to 0.0 when
\* the sum is greater than 100.0.
tick(p) == IF p + 1 > 2 * 100 THEN 0 ELSE p + 1

\* CircleProgressBar::render: the colour of the arc.
arc_color(value, max) == IF value > max THEN "over_color" ELSE "fg_color"

\* The values of the animated bars: animated_progress, animated_progress *
\* 0.7 and animated_progress * 0.5, in twentieths (10, 7 and 5 times the
\* count of halves), against max_value in twentieths.
animated_bars(p) ==
    << arc_color(10 * p, 20 * max_value),
       arc_color(7 * p, 20 * max_value),
       arc_color(5 * p, 20 * max_value) >>

\* The state `new` returns: progress 0.0, the animation task spawned.
InitStory ==
    /\ progress = 0
    /\ colour = None
    /\ spc = "running"
    /\ ParserIdle
    /\ MatcherIdle
    /\ CompareIdle
    /\ PathExtIdle

\* The timer of the animation task fires and the entity is updated.
Tick ==
    /\ spc = "running"
    /\ progress' = tick(progress)
    /\ UNCHANGED <<colour, spc, parserVars, matcherVars, compareVars, pathExtVars>>

\* render: animated_progress is read once and handed to every animated bar.
Render ==
    /\ spc = "running"
    /\ colour' = Some([animated_progress |-> progress, arcs |-> animated_bars(progress)])
    /\ UNCHANGED <<progress, spc, parserVars, matcherVars, compareVars, pathExtVars>>

NextStory == Tick \/ Render

SpecStory == InitStory /\ [][NextStory]_vars

\* C30: the animated progress starts at 0; a change of progress adds 0.5, or
\* gives 0 when the sum would exceed 100, so the value following 100 is 0;
\* progress always lies between 0 and 100; and no animated bar is ever
\* rendered in the over-limit colour.
C30_ProgressStaysWithinLimit ==
    /\ spc = "running" => progress = 0
    /\ [](spc = "running" =>
            /\ progress \in 0..(2 * max_value)
            /\ colour # None =>
                  /\ colour[1].animated_progress <= 2 * max_value
                  /\ \A i \in 1..3 : colour[1].arcs[i] = "fg_color")
    /\ [][progress' # progress =>
            /\ progress = 2 * max_value => progress' = 0
            /\ progress < 2 * max_value => progress' = progress + 1]_vars

\* The bars were rendered at 100 and the next tick has reset progress to 0.
C30_Witness ==
    /\ spc = "running"
    /\ progress = 0
    /\ colour # None
    /\ colour[1].animated_progress = 2 * max_value

=============================================================================
